---------------------------- MODULE Spec2Model ----------------------------
(***************************************************************************)
(* MemFlow memory-dump analysis pipeline (cli_tool/memflow-cli_v2.py).     *)
(*                                                                         *)
(* The entry points are modelled over one set of variables:                *)
(*   Spec, SpecLive - full_analysis (MemflowAnalyzer.analyze)              *)
(*   SpecObs        - full_analysis with every kind of progress observer   *)
(*   SpecPar        - run_vol_parallel called directly with a command list *)
(*   SpecQuick      - MemflowAnalyzer.quick_scan, called once or twice     *)
(*   SpecOS         - the OS classifier, plugin selector and confidence    *)
(*                    fusion applied to a sample and to samples grown from *)
(*                    it                                                   *)
(*   SpecProgress   - ProgressTracker.update called with any arguments     *)
(*                                                                         *)
(* A dump file is a zero-filled byte array in which byte strings (tokens)  *)
(* are placed at offsets; header bytes are read from it byte by byte.      *)
(***************************************************************************)
EXTENDS Integers, Sequences, FiniteSets, TLC

\* ------------------------------------------------------------------------
\* Program constants
\* ------------------------------------------------------------------------
BUFFER_SIZE == 65536
HEURISTIC_SAMPLE_SIZE == 4000000
DEFAULT_TIMEOUT == 300
MIN_FILE_SIZE == 1024
MAX_WORKERS == 4
HEADER_READ_SIZE == 512
SIGNATURE_WINDOW == 64

\* ------------------------------------------------------------------------
\* Bounds of the model
\* ------------------------------------------------------------------------
\* tokens placed in a file examined by quick_scan
MaxTokens == 2
\* length of a command list handed directly to run_vol_parallel
MaxCmds == 3
\* longest selected plugin list for which a full_analysis run is explored
MaxPlugins == 4
\* times a classified sample is classified again
MaxGrow == 1
\* calls of ProgressTracker.update made by a caller of its own
MaxUpdates == 1
MaxLines == 3
MaxCases == 2
MaxFaults == 2

\* ------------------------------------------------------------------------
\* Small helpers
\* ------------------------------------------------------------------------
Min(a, b) == IF a <= b THEN a ELSE b

Range(s) == {s[i] : i \in 1..Len(s)}

\* Python: sig in h   (bytes containment)
Contains(sig, h) ==
    \E hv \in {h} :
        \E k \in 0..(Len(hv) - Len(sig)) :
            \A j \in 1..Len(sig) : hv[k + j] = sig[j]

\* Python: h.startswith(sig)
StartsWith(h, sig) ==
    \E hv \in {h} :
        /\ Len(hv) >= Len(sig)
        /\ \A j \in 1..Len(sig) : hv[j] = sig[j]

\* Python: h[:n]
Slice(h, n) == SubSeq(h, 1, Min(n, Len(h)))

\* A text is the sequence of its lines, a line the sequence of its fields
\* (fields are separated by tabs or runs of two or more blanks); "" is <<>>.
\* Optional[str]
None == [isNone |-> TRUE, text |-> <<>>]
Some(t) == [isNone |-> FALSE, text |-> t]
\* Python truthiness of an Optional[str]
Truthy(o) == (~o.isNone) /\ o.text # <<>>

\* dict assignment d[k] = v
DictSet(d, k, v) == [x \in (DOMAIN d) \cup {k} |-> IF x = k THEN v ELSE d[x]]
EmptyDict == [x \in {} |-> None]

\* ------------------------------------------------------------------------
\* SignatureTables
\* ------------------------------------------------------------------------
SIG_PAGEDUMP == <<80, 65, 71, 69, 68, 85, 77, 80>>
SIG_PAGE == <<80, 65, 71, 69>>
SIG_MDMP == <<77, 68, 77, 80>>
SIG_hibr == <<104, 105, 98, 114>>
SIG_HIBER81 == <<129, 0, 0, 0>>
SIG_ELF == <<127, 69, 76, 70>>
SIG_EMiL == <<69, 77, 105, 76>>
SIG_vmem == <<46, 118, 109, 101, 109>>
SIG_VirtualBox == <<86, 105, 114, 116, 117, 97, 108, 66, 111, 120>>

\* dict in insertion (= iteration) order
FORMAT_SIGNATURES ==
    << [name |-> "WINDOWS_CRASH_DUMP",  sigs |-> <<SIG_PAGEDUMP, SIG_PAGE, SIG_MDMP>>],
       [name |-> "WINDOWS_HIBERNATION", sigs |-> <<SIG_hibr, SIG_HIBER81>>],
       [name |-> "ELF_CORE",            sigs |-> <<SIG_ELF>>],
       [name |-> "LIME",                sigs |-> <<SIG_EMiL>>],
       [name |-> "VMWARE",              sigs |-> <<SIG_vmem>>],
       [name |-> "VIRTUALBOX",          sigs |-> <<SIG_VirtualBox>>] >>

MAGIC_gzip == <<31, 139>>
MAGIC_bzip2 == <<66, 90>>
MAGIC_zip == <<80, 75>>
MAGIC_xz == <<253, 55>>

compression_signatures == <<MAGIC_gzip, MAGIC_bzip2, MAGIC_zip, MAGIC_xz>>

WINDOWS_SIGNATURES ==
    << <<83, 121, 115, 116, 101, 109, 82, 111, 111, 116>>,
       <<75, 68, 66, 71>>,
       <<110, 116, 111, 115, 107, 114, 110, 108>>,
       <<92, 87, 105, 110, 100, 111, 119, 115, 92>>,
       <<92, 87, 73, 78, 68, 79, 87, 83, 92>>,
       <<77, 90, 144, 0>>,
       <<95, 69, 80, 82, 79, 67, 69, 83, 83>>,
       <<95, 75, 84, 72, 82, 69, 65, 68>> >>

LINUX_SIGNATURES ==
    << <<76, 105, 110, 117, 120, 32, 118, 101, 114, 115, 105, 111, 110>>,
       <<47, 108, 105, 98, 47, 109, 111, 100, 117, 108, 101, 115, 47>>,
       <<47, 117, 115, 114, 47, 98, 105, 110, 47>>,
       <<47, 101, 116, 99, 47>>,
       <<116, 97, 115, 107, 95, 115, 116, 114, 117, 99, 116>>,
       <<105, 110, 105, 116, 95, 116, 97, 115, 107>> >>

MAC_SIGNATURES ==
    << <<68, 97, 114, 119, 105, 110, 32, 75, 101, 114, 110, 101, 108>>,
       <<99, 111, 109, 46, 97, 112, 112, 108, 101, 46>>,
       <<47, 83, 121, 115, 116, 101, 109, 47, 76, 105, 98, 114, 97, 114, 121, 47>>,
       <<95, 95, 80, 65, 71, 69, 90, 69, 82, 79>>,
       <<77, 97, 99, 104, 45, 79>> >>

WINDOWS_PLUGINS ==
    [essential |-> <<"windows.info", "windows.pslist", "windows.pstree", "windows.cmdline">>,
     network   |-> <<"windows.netscan", "windows.netstat">>,
     registry  |-> <<"windows.registry.hivelist", "windows.registry.printkey">>,
     malware   |-> <<"windows.malfind", "windows.dlllist", "windows.handles">>,
     advanced  |-> <<"windows.filescan", "windows.driverscan", "windows.svcscan",
                     "windows.envars", "windows.sessions">>]

LINUX_PLUGINS ==
    [essential |-> <<"linux.bash", "linux.pslist", "linux.pstree">>,
     network   |-> <<"linux.sockstat">>,
     advanced  |-> <<"linux.lsmod", "linux.lsof", "linux.mountinfo", "linux.proc">>]

MACOS_PLUGINS ==
    [essential |-> <<"mac.pslist", "mac.pstree">>,
     network   |-> <<"mac.netstat">>,
     advanced  |-> <<"mac.lsmod", "mac.lsof">>]

Levels == {"essential", "standard", "advanced", "full"}

\* ------------------------------------------------------------------------
\* Dump files
\* ------------------------------------------------------------------------
\* kind: "missing" | "dir" | "file";  toks: set of [bytes, off] placements
FileBytesEnd(t) == t.off + Len(t.bytes)

\* byte at 0-based offset i of the file content
ByteAt(f, i) ==
    IF \E t \in f.toks : t.off <= i /\ i < FileBytesEnd(t)
    THEN LET t == CHOOSE t \in f.toks : t.off <= i /\ i < FileBytesEnd(t)
         IN  t.bytes[i - t.off + 1]
    ELSE 0

\* f.read(n) from the start of the file
ReadBytes(f, n) == [i \in 1..Min(n, f.size) |-> ByteAt(f, i - 1)]


\* open() / read() failures: "none" | "open" (open fails) |
\* "tail" (reads past the first BUFFER_SIZE bytes fail)
ReadFails(f, n) ==
    \/ f.kind # "file"
    \/ f.bad = "open"
    \/ (f.bad = "tail" /\ Min(n, f.size) > BUFFER_SIZE)

\* ------------------------------------------------------------------------
\* ProgressTracker
\* ------------------------------------------------------------------------
\* the progress observer handed to the entry point:
\* "none" | "ok" | "raises" | "picky"
VARIABLE callback

FULL_STAGES ==
    <<"Validation", "Format Detection", "Hashing", "OS Detection",
      "Plugin Execution", "Analysis", "Finalization">>

\* list.index(x), 0-based
IndexOf(s, x) == (CHOOSE i \in 1..Len(s) : s[i] = x /\ \A j \in 1..(i - 1) : s[j] # x) - 1

\* variant: the completion fraction of the stage alone, without the base
\* offset of the stage
OverallPercentageNoBase(stgs, stage, current, total) ==
    IF total > 0 THEN [num |-> current * 100, den |-> total] ELSE [num |-> 0, den |-> 1]

\* overall_percentage as the exact fraction num/den (den > 0)
OverallPercentage(stgs, stage, current, total) ==
    IF Len(stgs) > 0 /\ stage \in Range(stgs)
    THEN IF total > 0
         THEN [num |-> (IndexOf(stgs, stage) * total + current) * 100,
               den |-> Len(stgs) * total]
         ELSE [num |-> IndexOf(stgs, stage) * 100, den |-> Len(stgs)]
    ELSE IF total > 0
         THEN [num |-> current * 100, den |-> total]
         ELSE [num |-> 0, den |-> 1]

\* variant: the percentage is passed on as computed
ClampPercentageNone(p) == p

\* min(100.0, overall_percentage)
ClampPercentage(p) == IF p.num > 100 * p.den THEN [num |-> 100, den |-> 1] ELSE p

\* what self.callback(progress) does: a "raises" observer raises on every
\* call, a "picky" one on the updates that open a stage (current = 0)
InvokeCallback(cb, current) ==
    CASE cb = "none"                  -> "not_called"
      [] cb = "raises"                -> "raised"
      [] cb = "picky" /\ current = 0  -> "raised"
      [] OTHER                        -> "returned"

\* variant: the observer's exception leaves update
HandleCallbackPropagate(outcome) == [logged |-> FALSE, escaped |-> outcome = "raised"]

\* try: self.callback(progress) / except Exception: print(...)
HandleCallback(outcome) == [logged |-> outcome = "raised", escaped |-> FALSE]

\* ProgressTracker.update: the AnalysisProgress object it builds and what
\* became of the observer call
ProgressUpdate(stgs, stage, current, total) ==
    LET p == ClampPercentage(OverallPercentage(stgs, stage, current, total))
        o == InvokeCallback(callback, current)
        h == HandleCallback(o)
    IN  [stage |-> stage, current |-> current, total |-> total,
         num |-> p.num, den |-> p.den,
         observer |-> o, logged |-> h.logged, escaped |-> h.escaped]

\* the observer's exception leaves the update made for this call
Escapes(call) == HandleCallback(InvokeCallback(callback, call[2])).escaped

\* `if progress: progress.update(...)` for a list of (stage, current, total);
\* an update that lets an exception out ends the list
Updates(tracked, stgs, calls) ==
    IF tracked
    THEN [i \in {j \in 1..Len(calls) : \A k \in 1..(j - 1) : ~Escapes(calls[k])} |->
             ProgressUpdate(stgs, calls[i][1], calls[i][2], calls[i][3])]
    ELSE <<>>

\* ------------------------------------------------------------------------
\* FormatDetector
\* ------------------------------------------------------------------------
_map_format_name(format_name) ==
    CASE format_name = "WINDOWS_CRASH_DUMP"  -> "windows_crash_dump"
      [] format_name = "WINDOWS_HIBERNATION" -> "windows_hibernation"
      [] format_name = "ELF_CORE"            -> "elf_core"
      [] format_name = "LIME"                -> "lime"
      [] format_name = "VMWARE"              -> "vmware"
      [] format_name = "VIRTUALBOX"          -> "virtualbox"
      [] OTHER                               -> "unknown"

\* variant: a magic anywhere in the header counts
_check_compression_anywhere(header) ==
    \E i \in 1..Len(compression_signatures) : Contains(compression_signatures[i], header)

_check_compression(header) ==
    \E i \in 1..Len(compression_signatures) : StartsWith(header, compression_signatures[i])

\* the (format, signature) pairs in the order the nested loops visit them
RECURSIVE SignaturePairsFrom(_)
SignaturePairsFrom(i) ==
    IF i > Len(FORMAT_SIGNATURES) THEN <<>>
    ELSE [j \in 1..Len(FORMAT_SIGNATURES[i].sigs) |->
              [format_name |-> FORMAT_SIGNATURES[i].name,
               sig |-> FORMAT_SIGNATURES[i].sigs[j]]]
         \o SignaturePairsFrom(i + 1)

SignaturePairs == SignaturePairsFrom(1)

\* the part of the header the signatures are searched in: header[:64]
SignatureArea(header) == Slice(header, SIGNATURE_WINDOW)

\* indices of the pairs whose signature is found
MatchingPairs(header) ==
    {i \in 1..Len(SignaturePairs) : Contains(SignaturePairs[i].sig, SignatureArea(header))}

\* variant: the loops keep the last match instead of returning at the first
LastMatchingPair(header) ==
    CHOOSE i \in MatchingPairs(header) : \A j \in MatchingPairs(header) : i >= j

\* the pair at which the loops return
FirstMatchingPair(header) ==
    CHOOSE i \in MatchingPairs(header) : \A j \in MatchingPairs(header) : i <= j

FormatInfo(ft, conf, ev, size, comp) ==
    [format_type |-> ft, confidence |-> conf, evidence |-> ev,
     size_bytes |-> size, is_compressed |-> comp]

NoFormatInfo == FormatInfo("", 0, [format_name |-> "", sig8 |-> <<>>], 0, FALSE)

\* detect_dump_format -> [raised, info, updates]
detect_dump_format(f, tracked, stgs) ==
    IF ReadFails(f, HEADER_READ_SIZE)
    THEN [raised |-> TRUE, info |-> NoFormatInfo,
          updates |-> Updates(tracked, stgs, << <<"Format Detection", 0, 3>> >>)]
    ELSE LET header == ReadBytes(f, HEADER_READ_SIZE) IN
         IF MatchingPairs(header) # {}
         THEN LET m == SignaturePairs[FirstMatchingPair(header)] IN
              [raised |-> FALSE,
               info |-> FormatInfo(_map_format_name(m.format_name), 90,
                                   [format_name |-> m.format_name, sig8 |-> Slice(m.sig, 8)],
                                   f.size, FALSE),
               updates |-> Updates(tracked, stgs,
                              << <<"Format Detection", 0, 3>>, <<"Format Detection", 1, 3>> >>)]
         ELSE [raised |-> FALSE,
               info |-> FormatInfo("raw", 50,
                                   [format_name |-> "", sig8 |-> <<>>],
                                   f.size, _check_compression(header)),
               updates |-> Updates(tracked, stgs,
                              << <<"Format Detection", 0, 3>>, <<"Format Detection", 1, 3>>,
                                 <<"Format Detection", 2, 3>>, <<"Format Detection", 3, 3>> >>)]

\* ------------------------------------------------------------------------
\* File hashing
\* ------------------------------------------------------------------------
\* number of chunks `while chunk := f.read(BUFFER_SIZE)` yields
ChunkCount(size) == (size + BUFFER_SIZE - 1) \div BUFFER_SIZE

\* file_hashes -> [raised, hashes, updates]; a digest is modelled by the
\* content it is computed from
file_hashes(f, tracked, stgs) ==
    LET fails  == ReadFails(f, f.size)
        chunks == IF f.kind # "file" \/ f.bad = "open" THEN 0
                  ELSE IF fails THEN 1 ELSE ChunkCount(f.size)
        calls  == [k \in 1..chunks |-> <<"Hashing", Min(k * BUFFER_SIZE, f.size), f.size>>]
    IN  [raised  |-> fails,
         hashes  |-> IF fails THEN [size |-> 0, toks |-> {}]
                     ELSE [size |-> f.size, toks |-> f.toks],
         updates |-> Updates(tracked /\ f.size > 0, stgs, calls)]

\* ------------------------------------------------------------------------
\* OSClassifier
\* ------------------------------------------------------------------------
\* offsets at which sig occurs in the first `limit` bytes of the file
Occurrences(f, sig, limit) ==
    UNION { { t.off + k : k \in { k \in 0..(Len(t.bytes) - Len(sig)) :
                                    /\ SubSeq(t.bytes, k + 1, k + Len(sig)) = sig
                                    /\ t.off + k + Len(sig) <= limit } }
            : t \in f.toks }

SetMin(S) == CHOOSE x \in S : \A y \in S : x <= y

SetMax(S) == CHOOSE x \in S : \A y \in S : x >= y

\* variant: every position at which the signature starts is counted
CountAll(occ, from, n) == Cardinality(occ)

\* sample.count(sig): occurrences are counted from the left, and the search
\* resumes behind each one, so that overlapping occurrences count once
\* (the position to resume at is bound to its value before the recursive use)
RECURSIVE Count(_, _, _)
Count(occ, from, n) ==
    LET rest == {p \in occ : p >= from} IN
    IF rest = {} THEN 0
    ELSE 1 + CHOOSE c \in {Count(occ, next, n) : next \in {SetMin(rest) + n}} : TRUE

\* variant: the weight is taken from the last occurrence (rfind)
SignatureWeightLast(f, sig, sample_len) ==
    LET occ == Occurrences(f, sig, sample_len) IN
    IF occ = {} THEN 0
    ELSE IF SetMax(occ) < sample_len \div 4
         THEN Count(occ, 0, Len(sig)) * 10
         ELSE Count(occ, 0, Len(sig)) * 5

\* contribution of one signature: count * 10 * position_weight
SignatureWeight(f, sig, sample_len) ==
    LET occ == Occurrences(f, sig, sample_len) IN
    IF occ = {} THEN 0
    ELSE IF SetMin(occ) < sample_len \div 4
         THEN Count(occ, 0, Len(sig)) * 10
         ELSE Count(occ, 0, Len(sig)) * 5

RECURSIVE ScoreFrom(_, _, _, _)
ScoreFrom(f, signatures, sample_len, i) ==
    IF i > Len(signatures) THEN 0
    ELSE SignatureWeight(f, signatures[i], sample_len)
         + ScoreFrom(f, signatures, sample_len, i + 1)

_calculate_signature_score(f, signatures) ==
    ScoreFrom(f, signatures, Min(HEURISTIC_SAMPLE_SIZE, f.size), 1)

OSSignatures(os_type) ==
    CASE os_type = "Windows" -> WINDOWS_SIGNATURES
      [] os_type = "Linux"   -> LINUX_SIGNATURES
      [] os_type = "macOS"   -> MAC_SIGNATURES
      [] OTHER               -> <<>>

\* _generate_evidence: number of signatures found and the first three of them
_generate_evidence(os_type, f) ==
    LET sigs  == OSSignatures(os_type)
        found == SelectSeq(sigs, LAMBDA sg :
                     Occurrences(f, sg, Min(HEURISTIC_SAMPLE_SIZE, f.size)) # {})
    IN  [kind |-> "signatures", found |-> Len(found), shown |-> Slice(found, 3)]

\* variant: the last key holding the maximum
MaxScoreOSLast(scores) ==
    LET order == <<"Windows", "Linux", "macOS">>
        best  == CHOOSE i \in 1..3 :
                    /\ \A j \in 1..3 : scores[order[j]] <= scores[order[i]]
                    /\ \A j \in (i + 1)..3 : scores[order[j]] < scores[order[i]]
    IN  order[best]

\* max(scores, key=scores.get): the first key holding the maximum
MaxScoreOS(scores) ==
    LET order == <<"Windows", "Linux", "macOS">>
        best  == CHOOSE i \in 1..3 :
                    /\ \A j \in 1..3 : scores[order[j]] <= scores[order[i]]
                    /\ \A j \in 1..(i - 1) : scores[order[j]] < scores[order[i]]
    IN  order[best]

\* enhanced_os_detection -> [os_type, evidence, confidence, updates]
enhanced_os_detection(f, tracked, stgs) ==
    IF ReadFails(f, HEURISTIC_SAMPLE_SIZE)
    THEN [os_type |-> "Unknown",
          evidence |-> [kind |-> "error", found |-> 0, shown |-> <<>>],
          confidence |-> 0,
          updates |-> Updates(tracked, stgs, << <<"OS Detection", 0, 2>> >>)]
    ELSE LET scores == [o \in {"Windows", "Linux", "macOS"} |->
                            _calculate_signature_score(f, OSSignatures(o))]
             detected_os == MaxScoreOS(scores)
             max_score == scores[detected_os]
             upd == Updates(tracked, stgs,
                        << <<"OS Detection", 0, 2>>, <<"OS Detection", 1, 2>>,
                           <<"OS Detection", 2, 2>> >>)
         IN  IF max_score > 0
             THEN [os_type |-> detected_os,
                   evidence |-> _generate_evidence(detected_os, f),
                   confidence |-> Min(100, 50 + max_score),
                   updates |-> upd]
             ELSE [os_type |-> "Unknown",
                   evidence |-> [kind |-> "none", found |-> 0, shown |-> <<>>],
                   confidence |-> 0,
                   updates |-> upd]

\* ------------------------------------------------------------------------
\* PluginSelector
\* ------------------------------------------------------------------------
\* variant: the network tier is put in front of the essential tier
_select_plugins_network_first(os_type, level) ==
    LET cat == CASE os_type = "Linux" -> LINUX_PLUGINS
                 [] os_type = "macOS" -> MACOS_PLUGINS
                 [] OTHER             -> WINDOWS_PLUGINS
    IN  (IF level \in {"standard", "advanced", "full"} THEN cat.network ELSE <<>>)
        \o cat.essential

\* variant: the network tier is selected at every level
_select_plugins_always_network(os_type, level) ==
    LET cat == CASE os_type = "Linux" -> LINUX_PLUGINS
                 [] os_type = "macOS" -> MACOS_PLUGINS
                 [] OTHER             -> WINDOWS_PLUGINS
    IN  cat.essential \o cat.network

\* variant: the fallback takes the whole Linux essential tier
_select_plugins_wide_fallback(os_type, level) ==
    CASE os_type = "Linux" -> LINUX_PLUGINS.essential
      [] os_type = "macOS" -> MACOS_PLUGINS.essential
      [] os_type = "Windows" -> WINDOWS_PLUGINS.essential
      [] OTHER -> WINDOWS_PLUGINS.essential \o LINUX_PLUGINS.essential

_select_plugins(os_type, level) ==
    CASE os_type = "Windows" ->
            WINDOWS_PLUGINS.essential
            \o (IF level \in {"standard", "advanced", "full"} THEN WINDOWS_PLUGINS.network ELSE <<>>)
            \o (IF level \in {"advanced", "full"} THEN WINDOWS_PLUGINS.malware ELSE <<>>)
            \o (IF level = "full" THEN WINDOWS_PLUGINS.advanced ELSE <<>>)
      [] os_type = "Linux" ->
            LINUX_PLUGINS.essential
            \o (IF level \in {"standard", "advanced", "full"} THEN LINUX_PLUGINS.network ELSE <<>>)
            \o (IF level \in {"advanced", "full"} THEN LINUX_PLUGINS.advanced ELSE <<>>)
      [] os_type = "macOS" ->
            MACOS_PLUGINS.essential
            \o (IF level \in {"standard", "advanced", "full"} THEN MACOS_PLUGINS.network ELSE <<>>)
            \o (IF level \in {"advanced", "full"} THEN MACOS_PLUGINS.advanced ELSE <<>>)
      [] OTHER ->
            WINDOWS_PLUGINS.essential \o Slice(LINUX_PLUGINS.essential, 2)

\* ------------------------------------------------------------------------
\* CommandExecutor
\* ------------------------------------------------------------------------
\* what find_volatility does in one call: "path" (found), "none" (not
\* found), "error" (the import probe raises something else than ImportError)
FindOutcomes(vol) ==
    CASE vol = "installed" -> {"path"}
      [] vol = "absent"    -> {"none"}
      [] OTHER             -> {"path", "none", "error"}

\* what the child process does: exit with (returncode, stdout, stderr),
\* exceed the timeout, or fail to start
TEXT_TABLE == << <<"Variable", "Value">>, <<"Kernel Base", "0xf80002a0f000">> >>

ProcOutcomes ==
    { [kind |-> "exit", rc |-> 0, stdout |-> TEXT_TABLE, stderr |-> ""],
      [kind |-> "exit", rc |-> 0, stdout |-> <<>>,       stderr |-> ""],
      [kind |-> "exit", rc |-> 1, stdout |-> TEXT_TABLE, stderr |-> "err"],
      [kind |-> "timeout", rc |-> 0, stdout |-> <<>>, stderr |-> ""],
      [kind |-> "oserror", rc |-> 0, stdout |-> <<>>, stderr |-> ""] }

Returned(v) == [raised |-> FALSE, exc |-> "", value |-> v]
Raised(e)   == [raised |-> TRUE, exc |-> e, value |-> None]

\* run_vol -> the return value or the exception that leaves the function
run_vol(find, proc) ==
    IF find = "error" THEN Raised("import failure")
    ELSE IF find = "none" THEN Raised("Volatility3 not found. Please install it first.")
    ELSE IF proc.kind = "exit" /\ proc.rc = 0 /\ proc.stdout # <<>>
         THEN Returned(Some(proc.stdout))
         ELSE Returned(None)

\* ------------------------------------------------------------------------
\* State
\* ------------------------------------------------------------------------
VARIABLES
    entry,        \* the entry point that was called
    file,         \* the dump file the path names
    level,        \* plugin_level
    vol,          \* the host: "installed" | "absent" | "unstable"
    tracked,      \* a ProgressTracker is passed to the callee
    stages,       \* ProgressTracker._stages
    max_workers,  \* ThreadPoolExecutor(max_workers)
    pc,           \* position of the control thread
    trace,        \* pipeline stages entered so far, in order
    events,       \* AnalysisProgress objects built by ProgressTracker.update
    format_info,  \* result of detect_dump_format
    hashes,       \* result of file_hashes
    os_detection, \* result of enhanced_os_detection
    plugins,      \* the command list handed to run_vol_parallel
    fut,          \* the futures: state and outcome of each submitted call
    results,      \* run_vol_parallel: results
    failures,     \* run_vol_parallel: failures
    completed,    \* run_vol_parallel: completed
    parsed,       \* full_analysis: what the parsers returned
    os_final,     \* full_analysis: result of determine_os_confidence
    report,       \* the value the entry point returned
    error,        \* the exception that left the entry point ("" if none)
    prev,         \* what an earlier call on the same path returned
    stage_timings,\* full_analysis: keys of the stage_timings dict
    cases,        \* back end: the committed status of each Case row, by id
    jobs,         \* back end: the analyze_memory_dump jobs handed to the queue
    faults        \* back end: database operations that raised so far

\* state the pipeline actions only read
backendVars == <<cases, jobs, faults>>
envVars == <<entry, file, level, vol, tracked, stages, max_workers, callback, prev, backendVars>>
scanVars == <<format_info, hashes, os_detection>>
poolVars == <<fut, results, failures, completed>>
outVars == <<parsed, os_final, report>>
vars == <<entry, file, level, vol, tracked, stages, max_workers, pc, trace, events,
          format_info, hashes, os_detection, plugins, fut, results, failures,
          completed, parsed, os_final, report, error, callback, prev,
          stage_timings, cases, jobs, faults>>

NoOSDetection ==
    [os_type |-> "", evidence |-> [kind |-> "", found |-> 0, shown |-> <<>>],
     confidence |-> 0]
NoHashes == [size |-> 0, toks |-> {}]
NoReport == [kind |-> "none"]
NoPrev == [kind |-> "none"]

\* ------------------------------------------------------------------------
\* ParallelRunner: run_vol_parallel
\* ------------------------------------------------------------------------
Running == {i \in DOMAIN fut : fut[i].st = "running"}
Pending == {i \in DOMAIN fut : fut[i].st = "pending"}

\* the call of progress.update made while collecting a future
CollectUpdate(trk, stgs, comp, total) ==
    Updates(trk, stgs, << <<"Plugin Execution", comp, total>> >>)

\* variant: an empty result is not entered into failures
TryBranchNoFailure(res, plugin, comp, total, r, fl, trk, stgs) ==
    [results  |-> DictSet(r, plugin, res.value),
     failures |-> fl,
     updates  |-> CollectUpdate(trk, stgs, comp, total),
     escaped  |-> ""]

\* body of the try block for a future that holds a return value
TryBranch(res, plugin, comp, total, r, fl, trk, stgs) ==
    [results  |-> DictSet(r, plugin, res.value),
     failures |-> IF ~Truthy(res.value)
                  THEN DictSet(fl, plugin, "No output returned") ELSE fl,
     updates  |-> CollectUpdate(trk, stgs, comp, total),
     escaped  |-> ""]

\* variant: the handler records the failure but not results[plugin]
ExceptBranchNoResult(res, plugin, comp, total, r, fl, trk, stgs) ==
    [results  |-> r,
     failures |-> DictSet(fl, plugin, res.exc),
     updates  |-> CollectUpdate(trk, stgs, comp, total),
     escaped  |-> ""]

\* variant: the exception is not handled and leaves run_vol_parallel
ExceptBranchReraise(res, plugin, comp, total, r, fl, trk, stgs) ==
    [results  |-> r,
     failures |-> fl,
     updates  |-> <<>>,
     escaped  |-> res.exc]

\* variant: the handler makes no progress update
ExceptBranchNoUpdate(res, plugin, comp, total, r, fl, trk, stgs) ==
    [results  |-> DictSet(r, plugin, None),
     failures |-> DictSet(fl, plugin, res.exc),
     updates  |-> <<>>,
     escaped  |-> ""]

\* body of `except Exception as e` for a future that holds an exception
ExceptBranch(res, plugin, comp, total, r, fl, trk, stgs) ==
    [results  |-> DictSet(r, plugin, None),
     failures |-> DictSet(fl, plugin, res.exc),
     updates  |-> CollectUpdate(trk, stgs, comp, total),
     escaped  |-> ""]

\* one iteration of `for future in as_completed(...)` after completed += 1
CollectBody(res, plugin, comp, total, r, fl, trk, stgs) ==
    IF res.raised
    THEN ExceptBranch(res, plugin, comp, total, r, fl, trk, stgs)
    ELSE TryBranch(res, plugin, comp, total, r, fl, trk, stgs)

\* results = {}; failures = {}; every plugin is submitted to the executor
ParSubmit ==
    /\ pc = "par_submit"
    /\ fut' = [i \in 1..Len(plugins) |-> [st |-> "pending", res |-> Returned(None)]]
    /\ results' = EmptyDict
    /\ failures' = EmptyDict
    /\ completed' = 0
    /\ pc' = "par_collect"
    /\ UNCHANGED <<envVars, stage_timings, scanVars, trace, events, plugins, outVars, error>>

\* an idle worker takes the oldest queued call
WorkerStart ==
    /\ pc = "par_collect"
    /\ Pending # {}
    /\ Cardinality(Running) < max_workers
    /\ LET i == SetMin(Pending) IN
       fut' = [fut EXCEPT ![i].st = "running"]
    /\ UNCHANGED <<envVars, stage_timings, scanVars, pc, trace, events, plugins, results, failures,
                   completed, outVars, error>>

\* a worker's call of run_vol ends; the future holds its result or exception
WorkerFinish ==
    /\ pc = "par_collect"
    /\ \E i \in Running, find \in FindOutcomes(vol), proc \in ProcOutcomes :
          fut' = [fut EXCEPT ![i] = [st |-> "done", res |-> run_vol(find, proc)]]
    /\ UNCHANGED <<envVars, stage_timings, scanVars, pc, trace, events, plugins, results, failures,
                   completed, outVars, error>>

\* the same step with what ended the call kept beside the future: what
\* find_volatility returned and how the child process ended
WorkerFinishObserved ==
    /\ entry = "run_vol" /\ pc = "par_collect"
    /\ \E i \in Running, find \in FindOutcomes(vol), proc \in ProcOutcomes :
          /\ fut' = [fut EXCEPT ![i] = [st |-> "done", res |-> run_vol(find, proc)]]
          /\ prev' = [kind |-> "calls",
                      ended |-> (i :> [find |-> find, proc |-> proc])
                                @@ (IF prev = NoPrev THEN <<>> ELSE prev.ended)]
    /\ UNCHANGED <<stage_timings, backendVars, entry, file, level, vol, tracked, stages, max_workers,
                   callback, scanVars, pc, trace, events, plugins, results, failures,
                   completed, outVars, error>>

\* as_completed yields a finished future; the loop body handles it
Collect ==
    /\ pc = "par_collect"
    /\ \E i \in DOMAIN fut :
          /\ fut[i].st = "done"
          /\ LET b == CollectBody(fut[i].res, plugins[i], completed + 1, Len(plugins),
                                  results, failures, tracked, stages) IN
             /\ completed' = completed + 1
             /\ results' = b.results
             /\ failures' = b.failures
             /\ events' = events \o b.updates
             /\ fut' = [fut EXCEPT ![i].st = "collected"]
             /\ IF b.escaped # ""
                THEN pc' = "Failed" /\ error' = b.escaped
                ELSE pc' = pc /\ error' = error
    /\ UNCHANGED <<envVars, stage_timings, scanVars, trace, plugins, outVars>>

\* the dict run_vol_parallel returns: results['_failures'] = failures
ReturnedDict(r, fl) == DictSet(r, "_failures", fl)

ParReturn ==
    /\ pc = "par_collect"
    /\ \A i \in DOMAIN fut : fut[i].st = "collected"
    /\ results' = ReturnedDict(results, failures)
    /\ pc' = "par_returned"
    /\ UNCHANGED <<envVars, stage_timings, scanVars, trace, events, plugins, fut, failures, completed,
                   outVars, error>>

\* ------------------------------------------------------------------------
\* OutputParsers and ConfidenceFusion
\* ------------------------------------------------------------------------
BANNER == "Volatility 3 Framework 2.5.0"

NoDict == [isNone |-> TRUE, dict |-> EmptyDict]
SomeDict(d) == [isNone |-> FALSE, dict |-> d]

\* lines parse_windows_info does not skip and can split in two
InfoLines(text) ==
    {i \in 1..Len(text) :
        /\ text[i] # <<>>
        /\ BANNER \notin Range(text[i])
        /\ text[i][1] \notin {"Variable", "==="}
        /\ Len(text[i]) >= 2
        /\ text[i][1] # ""}

\* parse_windows_info: key -> rest of the line, a later line overwriting an
\* earlier one with the same key; None when nothing was parsed
parse_windows_info(raw_output) ==
    IF ~Truthy(raw_output) THEN NoDict
    ELSE LET text == raw_output.text
             keys == {text[i][1] : i \in InfoLines(text)}
             last(k) == CHOOSE i \in InfoLines(text) :
                           /\ text[i][1] = k
                           /\ \A j \in InfoLines(text) : text[j][1] = k => j <= i
         IN  IF keys = {} THEN NoDict
             ELSE SomeDict([k \in keys |-> Tail(text[last(k)])])

\* dict.get(key) of an Optional[str] dict: None when the key is absent
DictGet(d, k) == IF k \in DOMAIN d THEN d[k] ELSE None

\* parse_generic_table works on the characters of the text: here a text is
\* the sequence of its characters, each a one-character string
TAB == "\t"
NL == "\n"

\* \s
IsSpace(c) == c \in {" ", TAB, NL}
\* [A-Z] and [a-z]
IsUpper(c) == c \in {"N", "P"}
IsLower(c) == c \in {"a", "d", "i"}

RECURSIVE LStrip(_)
LStrip(s) == IF s # <<>> /\ IsSpace(Head(s)) THEN LStrip(Tail(s)) ELSE s

RECURSIVE RStrip(_)
RStrip(s) ==
    IF s # <<>> /\ IsSpace(s[Len(s)]) THEN RStrip(SubSeq(s, 1, Len(s) - 1)) ELSE s

\* str.strip()
Strip(s) == RStrip(LStrip(s))

\* str.split('\n'); cur is the line being read
RECURSIVE SplitLines(_, _)
SplitLines(s, cur) ==
    IF s = <<>> THEN <<cur>>
    ELSE IF Head(s) = NL THEN <<cur>> \o SplitLines(Tail(s), <<>>)
    ELSE SplitLines(Tail(s), Append(cur, Head(s)))

RECURSIVE DropTabs(_)
DropTabs(s) == IF s # <<>> /\ Head(s) = TAB THEN DropTabs(Tail(s)) ELSE s

\* re.split(r'\t+|\s{2,}', s): at a tab the first alternative takes the run
\* of tabs; elsewhere a run of two or more blanks is taken whole; cur is the
\* field being read
RECURSIVE ReSplit(_, _)
ReSplit(s, cur) ==
    IF s = <<>> THEN <<cur>>
    ELSE IF Head(s) = TAB THEN <<cur>> \o ReSplit(DropTabs(s), <<>>)
    ELSE IF IsSpace(Head(s)) /\ Len(s) >= 2 /\ IsSpace(s[2])
         THEN <<cur>> \o ReSplit(LStrip(s), <<>>)
    ELSE ReSplit(Tail(s), Append(cur, Head(s)))

\* re.search(r'[A-Z][a-z]+.*[A-Z][a-z]+', line)
LooksLikeHeader(line) ==
    \E i \in 1..Len(line), j \in 1..Len(line) :
        /\ i + 2 <= j /\ j + 1 <= Len(line)
        /\ IsUpper(line[i]) /\ IsLower(line[i + 1])
        /\ IsUpper(line[j]) /\ IsLower(line[j + 1])

\* the lines at which the header loop would stop
HeaderLines(lines) ==
    {i \in 1..Len(lines) :
        LooksLikeHeader(lines[i]) /\ Len(ReSplit(Strip(lines[i]), <<>>)) >= 2}

\* variant: the last line that looks like a header is taken
HeaderIndexLast(lines) == SetMax(HeaderLines(lines))

\* the loop breaks at the first such line
HeaderIndex(lines) == SetMin(HeaderLines(lines))

\* {headers[i]: parts[i].strip() for i in range(len(headers))}
TableRow(headers, parts) ==
    [h \in Range(headers) |->
        Strip(parts[SetMax({i \in 1..Len(headers) : headers[i] = h})])]

\* the rows of the lines after the header, in order
RECURSIVE TableRows(_, _, _)
TableRows(lines, i, headers) ==
    IF i > Len(lines) THEN <<>>
    ELSE LET line  == Strip(lines[i])
             parts == ReSplit(line, <<>>)
         IN  (IF line = <<>> \/ StartsWith(line, <<"=", "=", "=">>) THEN <<>>
              ELSE IF Len(parts) >= Len(headers) THEN <<TableRow(headers, parts)>>
              ELSE <<>>)
             \o TableRows(lines, i + 1, headers)

NoTable == [isNone |-> TRUE, rows |-> <<>>]

\* parse_generic_table -> None or the list of rows
parse_generic_table(raw_output) ==
    IF ~Truthy(raw_output) THEN NoTable
    ELSE LET lines == SplitLines(Strip(raw_output.text), <<>>) IN
         IF HeaderLines(lines) = {} THEN NoTable
         ELSE LET header_idx == HeaderIndex(lines)
                  parts   == ReSplit(Strip(lines[header_idx]), <<>>)
                  headers == [k \in 1..Len(parts) |-> Strip(parts[k])]
                  rows    == TableRows(lines, header_idx + 1, headers)
              IN  IF rows = <<>> THEN NoTable
                  ELSE [isNone |-> FALSE, rows |-> rows]

\* variant: the confirmation counts only for a strong heuristic
determine_os_confidence_if_strong(osd, windows_info, linux_success, mac_success) ==
    LET volatility_confirms ==
            [o \in {"Windows", "Linux", "macOS"} |->
                CASE o = "Windows" -> ~windows_info.isNone
                  [] o = "Linux"   -> linux_success
                  [] OTHER         -> mac_success]
        confirmed == osd.os_type \in DOMAIN volatility_confirms
                     /\ volatility_confirms[osd.os_type]
        base == [operating_system |-> osd.os_type, evidence |-> osd.evidence,
                 volatility_support |-> volatility_confirms]
    IN  IF confirmed /\ osd.confidence >= 70
        THEN [confidence_score |-> Min(100, osd.confidence + 30),
              confidence_level |-> "HIGH"] @@ base
        ELSE IF osd.confidence >= 70
        THEN [confidence_score |-> osd.confidence, confidence_level |-> "MEDIUM"] @@ base
        ELSE IF osd.confidence > 0
        THEN [confidence_score |-> osd.confidence, confidence_level |-> "LOW"] @@ base
        ELSE [confidence_score |-> 0, confidence_level |-> "NONE"] @@ base

\* variant: final_confidence = heuristic_confidence + 30
determine_os_confidence_unclamped(osd, windows_info, linux_success, mac_success) ==
    LET volatility_confirms ==
            [o \in {"Windows", "Linux", "macOS"} |->
                CASE o = "Windows" -> ~windows_info.isNone
                  [] o = "Linux"   -> linux_success
                  [] OTHER         -> mac_success]
        confirmed == osd.os_type \in DOMAIN volatility_confirms
                     /\ volatility_confirms[osd.os_type]
        base == [operating_system |-> osd.os_type, evidence |-> osd.evidence,
                 volatility_support |-> volatility_confirms]
    IN  IF confirmed
        THEN [confidence_score |-> osd.confidence + 30,
              confidence_level |-> "HIGH"] @@ base
        ELSE IF osd.confidence >= 70
        THEN [confidence_score |-> osd.confidence, confidence_level |-> "MEDIUM"] @@ base
        ELSE IF osd.confidence > 0
        THEN [confidence_score |-> osd.confidence, confidence_level |-> "LOW"] @@ base
        ELSE [confidence_score |-> 0, confidence_level |-> "NONE"] @@ base

\* variant: the threshold of 70 is tested before the confirmation
determine_os_confidence_medium_first(osd, windows_info, linux_success, mac_success) ==
    LET volatility_confirms ==
            [o \in {"Windows", "Linux", "macOS"} |->
                CASE o = "Windows" -> ~windows_info.isNone
                  [] o = "Linux"   -> linux_success
                  [] OTHER         -> mac_success]
        confirmed == osd.os_type \in DOMAIN volatility_confirms
                     /\ volatility_confirms[osd.os_type]
        base == [operating_system |-> osd.os_type, evidence |-> osd.evidence,
                 volatility_support |-> volatility_confirms]
    IN  IF osd.confidence >= 70
        THEN [confidence_score |-> osd.confidence, confidence_level |-> "MEDIUM"] @@ base
        ELSE IF confirmed
        THEN [confidence_score |-> Min(100, osd.confidence + 30),
              confidence_level |-> "HIGH"] @@ base
        ELSE IF osd.confidence > 0
        THEN [confidence_score |-> osd.confidence, confidence_level |-> "LOW"] @@ base
        ELSE [confidence_score |-> 0, confidence_level |-> "NONE"] @@ base

determine_os_confidence(osd, windows_info, linux_success, mac_success) ==
    LET volatility_confirms ==
            [o \in {"Windows", "Linux", "macOS"} |->
                CASE o = "Windows" -> ~windows_info.isNone
                  [] o = "Linux"   -> linux_success
                  [] OTHER         -> mac_success]
        confirmed == osd.os_type \in DOMAIN volatility_confirms
                     /\ volatility_confirms[osd.os_type]
        base == [operating_system |-> osd.os_type, evidence |-> osd.evidence,
                 volatility_support |-> volatility_confirms]
    IN  IF confirmed
        THEN [confidence_score |-> Min(100, osd.confidence + 30),
              confidence_level |-> "HIGH"] @@ base
        ELSE IF osd.confidence >= 70
        THEN [confidence_score |-> osd.confidence, confidence_level |-> "MEDIUM"] @@ base
        ELSE IF osd.confidence > 0
        THEN [confidence_score |-> osd.confidence, confidence_level |-> "LOW"] @@ base
        ELSE [confidence_score |-> 0, confidence_level |-> "NONE"] @@ base

\* ------------------------------------------------------------------------
\* AnalysisPipeline: full_analysis
\* ------------------------------------------------------------------------
StageOrder ==
    <<"Validation", "FormatDetection", "Hashing", "OSDetection", "PluginSelection",
      "PluginExecution", "Parsing", "Fusion", "Finalization">>

\* variant: a file of exactly MIN_FILE_SIZE bytes is rejected too
FileTooSmallInclusive(size_bytes) == size_bytes <= MIN_FILE_SIZE

\* size_bytes < MIN_FILE_SIZE
FileTooSmall(size_bytes) == size_bytes < MIN_FILE_SIZE

\* the input checks -> [error, calls]: the MemflowError raised ("" if none)
\* and the progress.update calls made on the way
ValidateInput(f) ==
    IF f.kind = "missing"
    THEN [error |-> "MemflowError: File not found", calls |-> << <<"Validation", 0, 2>> >>]
    ELSE IF f.kind # "file"
    THEN [error |-> "MemflowError: Not a file", calls |-> << <<"Validation", 0, 2>> >>]
    ELSE IF FileTooSmall(f.size)
    THEN [error |-> "MemflowError: File too small",
          calls |-> << <<"Validation", 0, 2>>, <<"Validation", 1, 2>> >>]
    ELSE [error |-> "",
          calls |-> << <<"Validation", 0, 2>>, <<"Validation", 1, 2>>, <<"Validation", 2, 2>> >>]

\* variant: a failed check is recorded but the run goes on
FA_ValidationNoRaise ==
    /\ entry = "full_analysis" /\ pc = "Validation"
    /\ trace' = Append(trace, "Validation")
    /\ LET v == ValidateInput(file) IN
       /\ events' = events \o Updates(TRUE, stages, v.calls)
       /\ error' = v.error
       /\ pc' = "FormatDetection"
    /\ UNCHANGED <<envVars, stage_timings, scanVars, plugins, poolVars, outVars>>

FA_Validation ==
    /\ entry = "full_analysis" /\ pc = "Validation"
    /\ trace' = Append(trace, "Validation")
    /\ LET v == ValidateInput(file) IN
       /\ events' = events \o Updates(TRUE, stages, v.calls)
       /\ error' = v.error
       /\ pc' = IF v.error # "" THEN "Failed" ELSE "FormatDetection"
    /\ UNCHANGED <<envVars, stage_timings, scanVars, plugins, poolVars, outVars>>

FA_FormatDetection ==
    /\ entry = "full_analysis" /\ pc = "FormatDetection"
    /\ trace' = Append(trace, "FormatDetection")
    /\ LET d == detect_dump_format(file, TRUE, stages) IN
       /\ events' = events \o d.updates
       /\ format_info' = d.info
       /\ error' = IF d.raised THEN "MemflowError: Format detection failed" ELSE error
       /\ pc' = IF d.raised THEN "Failed" ELSE "Hashing"
       /\ stage_timings' = IF d.raised THEN stage_timings
                           ELSE stage_timings \cup {"format_detection"}
    /\ UNCHANGED <<envVars, hashes, os_detection, plugins, poolVars, outVars>>

FA_Hashing ==
    /\ entry = "full_analysis" /\ pc = "Hashing"
    /\ trace' = Append(trace, "Hashing")
    /\ LET h == file_hashes(file, TRUE, stages) IN
       /\ events' = events \o h.updates
       /\ hashes' = h.hashes
       /\ error' = IF h.raised THEN "MemflowError: Failed to calculate hashes" ELSE error
       /\ pc' = IF h.raised THEN "Failed" ELSE "OSDetection"
       /\ stage_timings' = IF h.raised THEN stage_timings
                           ELSE stage_timings \cup {"hashing"}
    /\ UNCHANGED <<envVars, format_info, os_detection, plugins, poolVars, outVars>>

FA_OSDetection ==
    /\ entry = "full_analysis" /\ pc = "OSDetection"
    /\ trace' = Append(trace, "OSDetection")
    /\ LET o == enhanced_os_detection(file, TRUE, stages) IN
       /\ events' = events \o o.updates
       /\ os_detection' = [os_type |-> o.os_type, evidence |-> o.evidence,
                           confidence |-> o.confidence]
    /\ stage_timings' = stage_timings \cup {"os_detection"}
    /\ pc' = "PluginSelection"
    /\ UNCHANGED <<envVars, format_info, hashes, plugins, poolVars, outVars, error>>

FA_PluginSelection ==
    /\ entry = "full_analysis" /\ pc = "PluginSelection"
    /\ trace' = Append(trace, "PluginSelection")
    /\ plugins' = _select_plugins(os_detection.os_type, level)
    /\ pc' = "PluginExecution"
    /\ UNCHANGED <<envVars, stage_timings, scanVars, events, poolVars, outVars, error>>

\* plugin_results = run_vol_parallel(plugins_to_run, path, progress)
FA_PluginExecution ==
    /\ entry = "full_analysis" /\ pc = "PluginExecution"
    /\ trace' = Append(trace, "PluginExecution")
    /\ pc' = "par_submit"
    /\ UNCHANGED <<envVars, stage_timings, scanVars, events, plugins, poolVars, outVars, error>>

\* dict.pop('_failures', {}) -> the dict without the key
PopFailures(r) == [k \in (DOMAIN r) \ {"_failures"} |-> r[k]]

\* stage_timings['plugin_execution'] = ...;
\* failures = plugin_results.pop('_failures', {})
FA_ExtractFailures ==
    /\ entry = "full_analysis" /\ pc = "par_returned"
    /\ stage_timings' = stage_timings \cup {"plugin_execution"}
    /\ failures' = IF "_failures" \in DOMAIN results THEN results["_failures"] ELSE EmptyDict
    /\ results' = PopFailures(results)
    /\ pc' = "Parsing"
    /\ UNCHANGED <<envVars, scanVars, trace, events, plugins, fut, completed, outVars, error>>

FA_Parsing ==
    /\ entry = "full_analysis" /\ pc = "Parsing"
    /\ trace' = Append(trace, "Parsing")
    /\ parsed' = [windows_info |-> parse_windows_info(DictGet(results, "windows.info"))]
    /\ events' = events \o Updates(TRUE, stages, << <<"Analysis", 0, 5>>, <<"Analysis", 1, 5>> >>)
    /\ pc' = "Fusion"
    /\ UNCHANGED <<envVars, stage_timings, scanVars, plugins, poolVars, os_final, report, error>>

FA_Fusion ==
    /\ entry = "full_analysis" /\ pc = "Fusion"
    /\ trace' = Append(trace, "Fusion")
    /\ os_final' = determine_os_confidence(os_detection, parsed.windows_info,
                       ~DictGet(results, "linux.pslist").isNone,
                       ~DictGet(results, "mac.pslist").isNone)
    /\ pc' = "Finalization"
    /\ UNCHANGED <<envVars, stage_timings, scanVars, events, plugins, poolVars, parsed, report, error>>

\* parse_windows_netscan on a text of lines of fields: the header is the
\* first line naming Offset, Proto and LocalAddr; a later line of five
\* fields or more is a connection
NetscanHeaders(text) ==
    {i \in 1..Len(text) : {"Offset", "Proto", "LocalAddr"} \subseteq Range(text[i])}

parse_windows_netscan(raw_output) ==
    IF ~Truthy(raw_output) \/ NetscanHeaders(raw_output.text) = {} THEN <<>>
    ELSE LET text == raw_output.text
             header_idx == SetMin(NetscanHeaders(text))
         IN  SelectSeq(SubSeq(text, header_idx + 1, Len(text)),
                       LAMBDA parts : Len(parts) >= 5 /\ parts[1] # "===")

\* the commands full_analysis looks at to tell whether the network plugins
\* failed
NETWORK_COMMANDS == <<"windows.netscan", "windows.netstat", "linux.sockstat", "mac.netstat">>

\* all(plugin_results.get(p) is None for p in [...] if p in plugins_to_run)
network_plugin_failed(r, pl) ==
    \A i \in 1..Len(NETWORK_COMMANDS) :
        NETWORK_COMMANDS[i] \in Range(pl) => DictGet(r, NETWORK_COMMANDS[i]).isNone

\* analyze_network -> the fields detected, count and failure_type;
\* connections is the list of connections, <<>> for None
analyze_network(connections, plugin_failed, plugin_level) ==
    IF plugin_failed
    THEN [detected |-> FALSE, count |-> 0, failure_type |-> "plugin_error"]
    ELSE IF connections = <<>>
    THEN IF plugin_level = "essential"
         THEN [detected |-> FALSE, count |-> 0, failure_type |-> "not_included"]
         ELSE [detected |-> FALSE, count |-> 0, failure_type |-> "no_data"]
    ELSE [detected |-> TRUE, count |-> Len(connections), failure_type |-> ""]

\* variant: "plugin_failures": failures
PluginFailuresFieldAlways(fl) == SomeDict(fl)

\* "plugin_failures": failures if failures else None
PluginFailuresField(fl) == IF DOMAIN fl # {} THEN SomeDict(fl) ELSE NoDict

\* "performance": total_time is a wall-clock difference; of stage_timings the
\* keys are kept, the durations being wall-clock differences too
Performance(timings) == [total_time |-> "elapsed", stage_timings |-> timings]

\* the report dict (the fields the properties refer to)
BuildReport(lvl, fi, hs, osf, pl, r, fl, timings) ==
    [kind |-> "report",
     plugin_level |-> lvl,
     plugins_executed |-> Len(pl),
     plugins_successful |-> Cardinality({k \in DOMAIN r : ~r[k].isNone}),
     format |-> fi,
     hashes |-> hs,
     os_detection |-> osf,
     plugins_attempted |-> [k \in DOMAIN r |-> ~r[k].isNone],
     network_analysis |->
         analyze_network(parse_windows_netscan(DictGet(r, "windows.netscan")),
                         network_plugin_failed(r, pl), lvl),
     plugin_failures |-> PluginFailuresField(fl),
     performance |-> Performance(timings)]

FA_Finalization ==
    /\ entry = "full_analysis" /\ pc = "Finalization"
    /\ trace' = Append(trace, "Finalization")
    /\ events' = events \o Updates(TRUE, stages,
                     << <<"Analysis", 2, 5>>, <<"Analysis", 3, 5>>, <<"Analysis", 4, 5>>,
                        <<"Finalization", 1, 1>> >>)
    /\ report' = BuildReport(level, format_info, hashes, os_final, plugins, results, failures,
                             stage_timings)
    /\ pc' = "Completed"
    /\ UNCHANGED <<envVars, stage_timings, scanVars, plugins, poolVars, parsed, os_final, error>>

\* cmdline_data = parse_generic_table(plugin_results.get("windows.cmdline")),
\* called on a text of characters
PG_Parse ==
    /\ entry = "parse_generic_table" /\ pc = "table_parse"
    /\ parsed' = [windows_info |-> NoDict,
                  table |-> parse_generic_table(DictGet(results, "windows.cmdline"))]
    /\ pc' = "table_done"
    /\ UNCHANGED <<envVars, stage_timings, scanVars, trace, events, plugins, poolVars,
                   os_final, report, error>>

\* ------------------------------------------------------------------------
\* MemflowAnalyzer.quick_scan
\* ------------------------------------------------------------------------
QS_Validate ==
    /\ entry = "quick_scan" /\ pc = "qs_validate"
    /\ IF file.kind = "missing"
       THEN pc' = "Failed" /\ error' = "MemflowError: File not found"
       ELSE pc' = "qs_format" /\ error' = error
    /\ UNCHANGED <<envVars, stage_timings, scanVars, trace, events, plugins, poolVars, outVars>>

QS_Format ==
    /\ entry = "quick_scan" /\ pc = "qs_format"
    /\ LET d == detect_dump_format(file, TRUE, stages) IN
       /\ events' = events \o d.updates
       /\ format_info' = d.info
       /\ error' = IF d.raised THEN "MemflowError: Format detection failed" ELSE error
       /\ pc' = IF d.raised THEN "Failed" ELSE "qs_os"
    /\ UNCHANGED <<envVars, stage_timings, hashes, os_detection, trace, plugins, poolVars, outVars>>

\* variant: the analyzer adds the confidence of its earlier scan
QS_OSCarry ==
    /\ entry = "quick_scan" /\ pc = "qs_os"
    /\ LET o == enhanced_os_detection(file, TRUE, stages) IN
       /\ events' = events \o o.updates
       /\ os_detection' = [os_type |-> o.os_type, evidence |-> o.evidence,
                           confidence |-> IF prev = NoPrev THEN o.confidence
                                          ELSE Min(100, o.confidence
                                                        + prev.report.os.confidence)]
    /\ report' = [kind |-> "quick",
                  size_bytes |-> file.size,
                  format |-> [type |-> format_info.format_type,
                              confidence |-> format_info.confidence],
                  os |-> [type |-> os_detection'.os_type,
                          confidence |-> os_detection'.confidence,
                          evidence |-> os_detection'.evidence]]
    /\ pc' = "Completed"
    /\ UNCHANGED <<envVars, stage_timings, format_info, hashes, trace, plugins, poolVars, parsed,
                   os_final, error>>

QS_OS ==
    /\ entry = "quick_scan" /\ pc = "qs_os"
    /\ LET o == enhanced_os_detection(file, TRUE, stages) IN
       /\ events' = events \o o.updates
       /\ os_detection' = [os_type |-> o.os_type, evidence |-> o.evidence,
                           confidence |-> o.confidence]
    /\ report' = [kind |-> "quick",
                  size_bytes |-> file.size,
                  format |-> [type |-> format_info.format_type,
                              confidence |-> format_info.confidence],
                  os |-> [type |-> os_detection'.os_type,
                          confidence |-> os_detection'.confidence,
                          evidence |-> os_detection'.evidence]]
    /\ pc' = "Completed"
    /\ UNCHANGED <<envVars, stage_timings, format_info, hashes, trace, plugins, poolVars, parsed,
                   os_final, error>>

\* the caller keeps what the call returned or raised and calls quick_scan
\* again on the same path; the file was not modified
QS_Again ==
    /\ entry = "quick_scan" /\ pc \in {"Completed", "Failed"}
    /\ prev = NoPrev
    /\ prev' = [kind |-> "scanned", file |-> file, report |-> report, error |-> error]
    /\ pc' = "qs_validate"
    /\ format_info' = NoFormatInfo
    /\ os_detection' = NoOSDetection
    /\ report' = NoReport
    /\ error' = ""
    /\ UNCHANGED <<stage_timings, backendVars, entry, file, level, vol, tracked, stages, max_workers, callback,
                   hashes, trace, events, plugins, poolVars, parsed, os_final>>

\* ------------------------------------------------------------------------
\* ProgressTracker.update called by any caller
\* ------------------------------------------------------------------------
\* ProgressTracker.update: stages in the declared list and outside it,
\* current below, at and above total, total zero
UpdateStages == {"Validation", "Hashing", "Finalization", "Custom"}
UpdateCounts == {-1, 0, 1, 3, 4}

PT_Update ==
    /\ entry = "progress_update" /\ pc = "updating"
    /\ Len(events) < MaxUpdates
    /\ \E stage \in UpdateStages, current \in UpdateCounts, total \in UpdateCounts :
          events' = events \o Updates(tracked, stages, << <<stage, current, total>> >>)
    /\ UNCHANGED <<envVars, stage_timings, scanVars, pc, trace, plugins, poolVars, outVars, error>>

\* ------------------------------------------------------------------------
\* The classifier, the selector and the fusion applied to a sample, and to
\* samples that hold further occurrences of the winning family's signatures
\* ------------------------------------------------------------------------
StripUpdates(o) ==
    [os_type |-> o.os_type, evidence |-> o.evidence, confidence |-> o.confidence]

\* sample = f.read(HEURISTIC_SAMPLE_SIZE); the three scores; the winner
OS_Detect ==
    /\ entry = "classify" /\ pc = "os_detect"
    /\ LET o == enhanced_os_detection(file, tracked, stages) IN
       /\ events' = events \o o.updates
       /\ os_detection' = StripUpdates(o)
    /\ pc' = "os_select"
    /\ UNCHANGED <<envVars, stage_timings, format_info, hashes, trace, plugins, poolVars, outVars, error>>

\* plugins = _select_plugins(os_type, plugin_level)
OS_Select ==
    /\ entry = "classify" /\ pc = "os_select"
    /\ plugins' = _select_plugins(os_detection.os_type, level)
    /\ pc' = "os_fuse"
    /\ UNCHANGED <<envVars, stage_timings, scanVars, trace, events, poolVars, outVars, error>>

\* the outputs of the confirming commands, then determine_os_confidence
\* called on them as full_analysis calls it
OS_Fuse ==
    /\ entry = "classify" /\ pc = "os_fuse"
    /\ \E wi \in {NoDict, SomeDict([k \in {"Kernel Base"} |-> <<"0xf80002a0f000">>])},
          r \in [{"linux.pslist", "mac.pslist"} -> {None, Some(TEXT_TABLE)}] :
          /\ parsed' = [windows_info |-> wi]
          /\ results' = r
          /\ os_final' = determine_os_confidence(os_detection, wi,
                             ~DictGet(r, "linux.pslist").isNone,
                             ~DictGet(r, "mac.pslist").isNone)
    /\ pc' = "os_done"
    /\ UNCHANGED <<envVars, stage_timings, scanVars, trace, events, plugins, fut, failures, completed,
                   report, error>>

\* bytes written over a zero-filled area of the file that does not touch
\* a token
Place(f, bytes, at) ==
    [f EXCEPT !.toks = @ \cup {[bytes |-> bytes, off |-> at]}]

CanPlace(f, bytes, at) ==
    /\ at + Len(bytes) <= f.size
    /\ \A t \in f.toks : FileBytesEnd(t) < at \/ at + Len(bytes) < t.off

\* bytes inserted at an offset, the content behind it moving up
Insert(f, bytes, at) ==
    [f EXCEPT !.size = @ + Len(bytes),
              !.toks = {IF t.off >= at THEN [t EXCEPT !.off = @ + Len(bytes)] ELSE t
                           : t \in @}
                       \cup {[bytes |-> bytes, off |-> at]}]

CanInsert(f, bytes, at) ==
    /\ at <= f.size
    /\ \A t \in f.toks : FileBytesEnd(t) < at \/ at < t.off

GrowOffsets == {0, 30}
\* the signatures a sample is grown with: the first two and the last declared
GrowSignatures(os_type) ==
    LET sigs == OSSignatures(os_type) IN
    IF sigs = <<>> THEN {} ELSE {sigs[1], sigs[2], sigs[Len(sigs)]}

\* [mode, file]: the same file, or the file with one more occurrence
Growths(f, os_type) ==
    LET choices == [sg : GrowSignatures(os_type), at : GrowOffsets] IN
    {[mode |-> "same", file |-> f]}
    \cup {[mode |-> "place", file |-> Place(f, c.sg, c.at)] :
             c \in {d \in choices : CanPlace(f, d.sg, d.at)}}
    \cup {[mode |-> "append", file |-> Insert(f, sg, f.size)] :
             sg \in GrowSignatures(os_type)}
    \cup {[mode |-> "insert", file |-> Insert(f, c.sg, c.at)] :
             c \in {d \in choices : CanInsert(f, d.sg, d.at)}}

Grown == IF prev = NoPrev THEN 0 ELSE prev.grown

\* the depths at which the caller classifies a second time (the classifier
\* does not read the depth)
GrowLevels == {"essential", "full"}

\* the caller classifies again: the same sample, or one with a further
\* occurrence of a signature of the family that won
OS_Grow ==
    /\ entry = "classify" /\ pc = "os_done"
    /\ Grown < MaxGrow
    /\ level \in GrowLevels
    /\ \E g \in Growths(file, os_detection.os_type) :
          /\ file' = g.file
          /\ prev' = [kind |-> "classified", grown |-> Grown + 1, mode |-> g.mode,
                      file |-> file, os_detection |-> os_detection,
                      parsed |-> parsed, results |-> results, os_final |-> os_final]
    /\ pc' = "os_detect"
    /\ os_detection' = NoOSDetection
    /\ plugins' = <<>>
    /\ parsed' = [windows_info |-> NoDict]
    /\ results' = EmptyDict
    /\ os_final' = [confidence_level |-> ""]
    /\ UNCHANGED <<stage_timings, backendVars, entry, level, vol, tracked, stages, max_workers, callback,
                   format_info, hashes, trace, events, fut, failures, completed,
                   report, error>>

\* ------------------------------------------------------------------------
\* Inputs
\* ------------------------------------------------------------------------
Disjoint(T) ==
    \A a \in T, b \in T :
        a # b => (FileBytesEnd(a) <= b.off \/ FileBytesEnd(b) <= a.off)

\* sets of at most n pairwise disjoint placements
RECURSIVE TokenSets(_, _)
TokenSets(P, n) ==
    IF n = 0 THEN {{}}
    ELSE LET S == TokenSets(P, n - 1) IN
         S \cup UNION { {T \cup {t} : t \in {u \in P : \A v \in T : Disjoint({u, v})}}
                         : T \in S }

RegularFiles(sizes, bads, tokSets) ==
    {f \in [kind : {"file"}, bad : bads, size : sizes, toks : tokSets] :
        \A t \in f.toks : FileBytesEnd(t) <= f.size}

MissingFile == [kind |-> "missing", bad |-> "none", size |-> 0, toks |-> {}]
DirFile == [kind |-> "dir", bad |-> "none", size |-> 4096, toks |-> {}]

\* quick_scan: files with format signatures, compression magics and OS
\* signatures around the start and the end of the signature area
QuickTokenBytes ==
    {SignaturePairs[i].sig : i \in 1..Len(SignaturePairs)}
    \cup Range(compression_signatures)
    \cup {MAC_SIGNATURES[4], LINUX_SIGNATURES[1]}
QuickOffsets == {0, 2, 58}
QuickSizes == {62, 512}
QuickFiles ==
    {MissingFile, DirFile}
    \cup RegularFiles(QuickSizes, {"none"},
                      TokenSets([bytes : QuickTokenBytes, off : QuickOffsets], MaxTokens))
    \cup RegularFiles({512}, {"open"}, {{}})

\* full_analysis: files around the size floor, with and without read errors,
\* of every OS family
PlainTokenSets ==
    { {},
      {[bytes |-> SIG_PAGEDUMP, off |-> 0]},
      {[bytes |-> MAGIC_gzip, off |-> 0]} }
LinuxTokenSet == {[bytes |-> LINUX_SIGNATURES[1], off |-> 100]}
\* a crash dump header in front of the Linux banner
CrashDumpLinuxTokenSet == LinuxTokenSet \cup {[bytes |-> SIG_PAGEDUMP, off |-> 0]}
PipeTokenSets ==
    PlainTokenSets
    \cup { {[bytes |-> WINDOWS_SIGNATURES[2] \o WINDOWS_SIGNATURES[2] \o WINDOWS_SIGNATURES[2]
                         \o WINDOWS_SIGNATURES[2] \o WINDOWS_SIGNATURES[2]
                         \o WINDOWS_SIGNATURES[2], off |-> 100]},
           {[bytes |-> MAC_SIGNATURES[1], off |-> 100]} }
PipeSizes == {1023, 1024, 70000}
PipeFiles ==
    {MissingFile, DirFile}
    \cup RegularFiles(PipeSizes, {"none", "open"}, PlainTokenSets)
    \cup RegularFiles({1024}, {"none", "open"}, {LinuxTokenSet})
    \cup RegularFiles({1024}, {"none"}, {CrashDumpLinuxTokenSet})
    \cup RegularFiles({70000}, {"none", "open", "tail"}, PipeTokenSets)

\* full_analysis under observation: a file that goes through, one whose
\* hashing fails and one below the size floor
ObsFiles ==
    RegularFiles({70000}, {"none", "tail"}, {LinuxTokenSet})
    \cup RegularFiles({1023}, {"none"}, {{}})

Hosts == {"installed", "absent", "unstable"}

\* run_vol_parallel: any list of command names, repeated names included
CmdPool == {"windows.info", "linux.pslist"}
CmdLists == UNION {[1..k -> CmdPool] : k \in 0..MaxCmds}
PlainFile == [kind |-> "file", bad |-> "none", size |-> 2048, toks |-> {}]

\* the classifier: small samples whose quarter mark lies at offset 16
RECURSIVE Repeat(_, _)
Repeat(bytes, n) == IF n = 0 THEN <<>> ELSE bytes \o Repeat(bytes, n - 1)

OSSampleSize == 64
OSTokenSets ==
    { {},
      {[bytes |-> Repeat(LINUX_SIGNATURES[4], 3), off |-> 11]},
      {[bytes |-> LINUX_SIGNATURES[5], off |-> 40]},
      {[bytes |-> Repeat(WINDOWS_SIGNATURES[2], 2), off |-> 4]},
      {[bytes |-> Repeat(WINDOWS_SIGNATURES[2], 6), off |-> 4]},
      {[bytes |-> MAC_SIGNATURES[5], off |-> 20]},
      {[bytes |-> MAC_SIGNATURES[5], off |-> 4], [bytes |-> LINUX_SIGNATURES[4], off |-> 50]},
      {[bytes |-> LINUX_SIGNATURES[1], off |-> 2]},
      {[bytes |-> LINUX_SIGNATURES[4] \o Tail(LINUX_SIGNATURES[4]), off |-> 4]},
      {[bytes |-> LINUX_SIGNATURES[4], off |-> 4], [bytes |-> MAC_SIGNATURES[5], off |-> 9]} }
OSFiles ==
    RegularFiles({OSSampleSize}, {"none"}, OSTokenSets)
    \cup RegularFiles({OSSampleSize}, {"open"}, {{}})

\* ------------------------------------------------------------------------
\* Specifications
\* ------------------------------------------------------------------------
\* no case was uploaded and no job is queued
NoBackend == cases = <<>> /\ jobs = <<>> /\ faults = 0

InitLocals ==
    /\ trace = <<>>
    /\ events = <<>>
    /\ format_info = NoFormatInfo
    /\ hashes = NoHashes
    /\ os_detection = NoOSDetection
    /\ fut = <<>>
    /\ results = EmptyDict
    /\ failures = EmptyDict
    /\ completed = 0
    /\ parsed = [windows_info |-> NoDict]
    /\ os_final = [confidence_level |-> ""]
    /\ report = NoReport
    /\ error = ""
    /\ prev = NoPrev
    /\ stage_timings = {}
    /\ NoBackend

\* the run gets as far as the plugin stages
ReachesPluginExecution(f) ==
    /\ ValidateInput(f).error = ""
    /\ ~detect_dump_format(f, FALSE, <<>>).raised
    /\ ~file_hashes(f, FALSE, <<>>).raised

\* "full" selects what "advanced" selects for this OS family, so that a run
\* at "advanced" already covers the pool of the run at "full"
SameAsAdvanced(f, lvl) ==
    /\ lvl = "full"
    /\ _select_plugins(enhanced_os_detection(f, FALSE, <<>>).os_type, "full")
          = _select_plugins(enhanced_os_detection(f, FALSE, <<>>).os_type, "advanced")

\* a call of full_analysis(path, callback, plugin_level)
Init ==
    /\ entry = "full_analysis"
    /\ file \in PipeFiles
    /\ level \in Levels
    /\ file.toks = CrashDumpLinuxTokenSet => level = "essential"
    /\ ReachesPluginExecution(file) =>
          /\ Len(_select_plugins(enhanced_os_detection(file, FALSE, <<>>).os_type, level))
                <= MaxPlugins
          /\ ~SameAsAdvanced(file, level)
    /\ vol \in Hosts
    /\ tracked = TRUE
    /\ stages = FULL_STAGES
    /\ callback = "ok"
    /\ max_workers = MAX_WORKERS
    /\ plugins = <<>>
    /\ pc = "Validation"
    /\ InitLocals

Next ==
    \/ FA_Validation
    \/ FA_FormatDetection
    \/ FA_Hashing
    \/ FA_OSDetection
    \/ FA_PluginSelection
    \/ FA_PluginExecution
    \/ ParSubmit
    \/ WorkerStart
    \/ WorkerFinish
    \/ Collect
    \/ ParReturn
    \/ FA_ExtractFailures
    \/ FA_Parsing
    \/ FA_Fusion
    \/ FA_Finalization

Spec == Init /\ [][Next]_vars

\* the control thread and the workers keep running, and every child process
\* ends or is stopped by its timeout
SpecLive == Init /\ [][Next]_vars /\ WF_vars(Next)

\* full_analysis(path, callback, "essential") with every kind of observer
InitObs ==
    /\ entry = "full_analysis"
    /\ file \in ObsFiles
    /\ level = "essential"
    /\ vol \in Hosts
    /\ tracked = TRUE
    /\ stages = FULL_STAGES
    /\ callback \in {"none", "ok", "raises", "picky"}
    /\ max_workers = MAX_WORKERS
    /\ plugins = <<>>
    /\ pc = "Validation"
    /\ InitLocals

SpecObs == InitObs /\ [][Next]_vars /\ WF_vars(Next)

\* a call of run_vol_parallel(plugins, dump_path, progress, max_workers)
InitPar ==
    /\ entry = "run_vol_parallel"
    /\ file = PlainFile
    /\ level = "essential"
    /\ vol \in Hosts
    /\ tracked \in BOOLEAN
    /\ stages = IF tracked THEN FULL_STAGES ELSE <<>>
    /\ callback = "ok"
    /\ max_workers \in {1, MAX_WORKERS}
    /\ plugins \in CmdLists
    /\ pc = "par_submit"
    /\ InitLocals

NextPar ==
    \/ ParSubmit
    \/ WorkerStart
    \/ WorkerFinish
    \/ Collect
    \/ ParReturn

SpecPar == InitPar /\ [][NextPar]_vars

\* run_vol_parallel on one or two different commands, with the end of every
\* call of run_vol observed
RunVolLists == {<<name>> : name \in CmdPool}
               \cup {c \in [1..2 -> CmdPool] : c[1] # c[2]}

InitRunVol ==
    /\ entry = "run_vol"
    /\ file = PlainFile
    /\ level = "essential"
    /\ vol \in Hosts
    /\ tracked = FALSE
    /\ stages = <<>>
    /\ callback = "ok"
    /\ max_workers \in {1, MAX_WORKERS}
    /\ plugins \in RunVolLists
    /\ pc = "par_submit"
    /\ InitLocals

NextRunVol ==
    \/ ParSubmit
    \/ WorkerStart
    \/ WorkerFinishObserved
    \/ Collect
    \/ ParReturn

SpecRunVol == InitRunVol /\ [][NextRunVol]_vars

\* parse_generic_table(raw_output): texts of up to MaxLines lines, with and
\* without a header, with separator, blank, short and long lines
TableLines ==
    { <<>>,
      <<"=", "=", "=">>,
      <<"P", "i", "d", TAB, "N", "a">>,
      <<"N", "a", " ", "P", "i", "d">>,
      <<"N", "a", " ", " ", "N", "a">>,
      <<"a", TAB, "d">>,
      <<"i">>,
      <<"i", TAB, "a", TAB, "a">>,
      <<" ", "d", " ", " ", "d", " ">>,
      <<"a", TAB, " ", " ", "i">> }

RECURSIVE JoinLines(_)
JoinLines(ls) ==
    IF ls = <<>> THEN <<>>
    ELSE IF Len(ls) = 1 THEN ls[1]
    ELSE ls[1] \o <<NL>> \o JoinLines(Tail(ls))

TableTexts ==
    {None} \cup {Some(JoinLines(ls)) : ls \in UNION {[1..k -> TableLines] : k \in 0..MaxLines}}

InitTable ==
    /\ entry = "parse_generic_table"
    /\ file = PlainFile
    /\ level = "essential"
    /\ vol = "installed"
    /\ tracked = FALSE
    /\ stages = <<>>
    /\ callback = "none"
    /\ max_workers = MAX_WORKERS
    /\ plugins = <<"windows.cmdline">>
    /\ pc = "table_parse"
    /\ \E raw \in TableTexts : results = [k \in {"windows.cmdline"} |-> raw]
    /\ trace = <<>>
    /\ events = <<>>
    /\ format_info = NoFormatInfo
    /\ hashes = NoHashes
    /\ os_detection = NoOSDetection
    /\ fut = <<>>
    /\ failures = EmptyDict
    /\ completed = 0
    /\ parsed = [windows_info |-> NoDict]
    /\ os_final = [confidence_level |-> ""]
    /\ report = NoReport
    /\ error = ""
    /\ prev = NoPrev
    /\ stage_timings = {}
    /\ NoBackend

NextTable == PG_Parse

SpecTable == InitTable /\ [][NextTable]_vars

\* ------------------------------------------------------------------------
\* The back end: upload_case and the analyze_memory_dump job
\* ------------------------------------------------------------------------
\* a database operation (Case.query.get, db.session.commit) returns or raises
DbOutcomes == IF faults < MaxFaults THEN {"ok", "raises"} ELSE {"ok"}

Fault(o) == IF o = "raises" THEN faults + 1 ELSE faults

\* an id no upload ever gives out
MissingId == MaxCases + 1

NewJob(case_id) == [case_id |-> case_id, pc |-> "queued", exc |-> ""]

\* what the back end leaves alone
pipeVars == <<entry, file, level, vol, tracked, stages, max_workers, callback, prev,
              pc, trace, events, scanVars, plugins, poolVars, outVars, error, stage_timings>>

\* upload_case: the Case row is committed with status 'queued', then the job
\* is enqueued; a database error rolls the upload back, a missing queue or a
\* failing enqueue leaves the case without job
upload_case ==
    /\ entry = "analyze_memory_dump"
    /\ Len(cases) < MaxCases
    /\ \E o \in DbOutcomes : \E enqueued \in BOOLEAN :
          /\ faults' = Fault(o)
          /\ IF o = "raises"
             THEN cases' = cases /\ jobs' = jobs
             ELSE /\ cases' = Append(cases, "queued")
                  /\ jobs' = IF enqueued THEN Append(jobs, NewJob(Len(cases) + 1)) ELSE jobs
    /\ UNCHANGED pipeVars

\* the queue is handed a job for a case id that does not exist
EnqueueMissing ==
    /\ entry = "analyze_memory_dump"
    /\ \A j \in 1..Len(jobs) : jobs[j].case_id # MissingId
    /\ jobs' = Append(jobs, NewJob(MissingId))
    /\ UNCHANGED <<pipeVars, cases, faults>>

\* a worker takes the job and calls analyze_memory_dump(case_id)
AMD_Start ==
    /\ entry = "analyze_memory_dump"
    /\ \E j \in 1..Len(jobs) :
          /\ jobs[j].pc = "queued"
          /\ jobs' = [jobs EXCEPT ![j].pc = "get"]
    /\ UNCHANGED <<pipeVars, cases, faults>>

\* case = Case.query.get(case_id); if not case: raise ValueError(...)
AMD_Get ==
    /\ entry = "analyze_memory_dump"
    /\ \E j \in 1..Len(jobs) : \E o \in DbOutcomes :
          /\ jobs[j].pc = "get"
          /\ faults' = Fault(o)
          /\ jobs' = [jobs EXCEPT ![j] =
                IF o = "raises" THEN [@ EXCEPT !.pc = "except", !.exc = "database error"]
                ELSE IF jobs[j].case_id \notin DOMAIN cases
                THEN [@ EXCEPT !.pc = "except", !.exc = "ValueError: Case not found"]
                ELSE [@ EXCEPT !.pc = "set_processing"]]
    /\ UNCHANGED <<pipeVars, cases>>

\* case.status = 'processing'; db.session.commit(); return {...}
AMD_SetProcessing ==
    /\ entry = "analyze_memory_dump"
    /\ \E j \in 1..Len(jobs) : \E o \in DbOutcomes :
          /\ jobs[j].pc = "set_processing"
          /\ faults' = Fault(o)
          /\ IF o = "raises"
             THEN /\ cases' = cases
                  /\ jobs' = [jobs EXCEPT ![j].pc = "except", ![j].exc = "database error"]
             ELSE /\ cases' = [cases EXCEPT ![jobs[j].case_id] = "processing"]
                  /\ jobs' = [jobs EXCEPT ![j].pc = "returned"]
    /\ UNCHANGED pipeVars

\* except Exception: case = Case.query.get(case_id); if case: ...; a
\* database error in the handler is printed; then `raise`
AMD_Except ==
    /\ entry = "analyze_memory_dump"
    /\ \E j \in 1..Len(jobs) : \E o \in DbOutcomes :
          /\ jobs[j].pc = "except"
          /\ faults' = Fault(o)
          /\ jobs' = [jobs EXCEPT ![j].pc =
                IF o = "ok" /\ jobs[j].case_id \in DOMAIN cases
                THEN "set_failed" ELSE "raised"]
    /\ UNCHANGED <<pipeVars, cases>>

\* case.status = 'failed'; db.session.commit(); then `raise`
AMD_SetFailed ==
    /\ entry = "analyze_memory_dump"
    /\ \E j \in 1..Len(jobs) : \E o \in DbOutcomes :
          /\ jobs[j].pc = "set_failed"
          /\ faults' = Fault(o)
          /\ cases' = IF o = "raises" THEN cases
                      ELSE [cases EXCEPT ![jobs[j].case_id] = "failed"]
          /\ jobs' = [jobs EXCEPT ![j].pc = "raised"]
    /\ UNCHANGED pipeVars

InitTask ==
    /\ entry = "analyze_memory_dump"
    /\ file = PlainFile
    /\ level = "essential"
    /\ vol = "installed"
    /\ tracked = FALSE
    /\ stages = <<>>
    /\ callback = "none"
    /\ max_workers = MAX_WORKERS
    /\ plugins = <<>>
    /\ pc = "backend"
    /\ InitLocals

NextTask ==
    \/ upload_case
    \/ EnqueueMissing
    \/ AMD_Start
    \/ AMD_Get
    \/ AMD_SetProcessing
    \/ AMD_Except
    \/ AMD_SetFailed

SpecTask == InitTask /\ [][NextTask]_vars

\* a call of MemflowAnalyzer.quick_scan(dump_path)
InitQuick ==
    /\ entry = "quick_scan"
    /\ file \in QuickFiles
    /\ level = "essential"
    /\ vol = "installed"
    /\ tracked = TRUE
    /\ stages = <<>>
    /\ callback = "ok"
    /\ max_workers = MAX_WORKERS
    /\ plugins = <<>>
    /\ pc = "qs_validate"
    /\ InitLocals

NextQuick ==
    \/ QS_Validate
    \/ QS_Format
    \/ QS_OS
    \/ QS_Again

SpecQuick == InitQuick /\ [][NextQuick]_vars

\* a ProgressTracker, with or without set_stages, and its update calls
InitProgress ==
    /\ entry = "progress_update"
    /\ file = MissingFile
    /\ level = "essential"
    /\ vol = "installed"
    /\ tracked = TRUE
    /\ stages \in {<<>>, FULL_STAGES, <<"Hashing">>}
    /\ callback \in {"none", "ok"}
    /\ max_workers = MAX_WORKERS
    /\ plugins = <<>>
    /\ pc = "updating"
    /\ InitLocals

NextProgress == PT_Update

SpecProgress == InitProgress /\ [][NextProgress]_vars

\* the classifier, the selector and the fusion called in turn on a sample
InitOS ==
    /\ entry = "classify"
    /\ file \in OSFiles
    /\ level \in Levels
    /\ vol = "installed"
    /\ tracked = FALSE
    /\ stages = <<>>
    /\ callback = "none"
    /\ max_workers = MAX_WORKERS
    /\ plugins = <<>>
    /\ pc = "os_detect"
    /\ InitLocals

NextOS ==
    \/ OS_Detect
    \/ OS_Select
    \/ OS_Fuse
    \/ OS_Grow

SpecOS == InitOS /\ [][NextOS]_vars

TypeOK ==
    /\ pc \in {"Validation", "FormatDetection", "Hashing", "OSDetection", "PluginSelection",
               "PluginExecution", "par_submit", "par_collect", "par_returned", "Parsing",
               "Fusion", "Finalization", "Completed", "Failed",
               "qs_validate", "qs_format", "qs_os",
               "os_detect", "os_select", "os_fuse", "os_done", "updating",
               "table_parse", "table_done", "backend"}
    /\ completed \in 0..Len(plugins)

\* ------------------------------------------------------------------------
\* Properties of run_vol_parallel (SpecPar)
\* ------------------------------------------------------------------------
ParReturned == entry = "run_vol_parallel" /\ pc = "par_returned"

DistinctNames(s) == \A i \in 1..Len(s), j \in 1..Len(s) : s[i] = s[j] => i = j

\* what a finished call produced: its text, or nothing
Produced(i) == (~fut[i].res.raised) /\ fut[i].res.value.text # <<>>

\* the reason the loop body records for a call that produced nothing
ReasonOf(i) == IF fut[i].res.raised THEN fut[i].res.exc ELSE "No output returned"

\* C1 as stated: the returned collection has exactly one key per submitted
\* command name, no other key, and exactly N entries for a list of N names.
C1_AsStated ==
    ParReturned =>
        /\ DOMAIN results = Range(plugins)
        /\ Cardinality(DOMAIN results) = Len(plugins)

\* C1 amended: the returned dict has one key per distinct submitted command
\* name plus the one key '_failures' that holds the failure map; no submitted
\* name is absent and there are D + 1 entries for D distinct names.
C1_ReturnedKeys ==
    ParReturned =>
        /\ DOMAIN results = Range(plugins) \cup {"_failures"}
        /\ Cardinality(DOMAIN results) = Cardinality(Range(plugins)) + 1
        /\ DistinctNames(plugins) => Cardinality(DOMAIN results) = Len(plugins) + 1

\* a returned call in which successes, empty results and exceptions mix
C1_Witness ==
    /\ ParReturned
    /\ Len(plugins) >= 3
    /\ \E i, j, k \in DOMAIN fut :
          /\ Produced(i)
          /\ (~fut[j].res.raised) /\ ~Produced(j)
          /\ fut[k].res.raised

\* C2 as stated: after the return every submitted command has either a
\* non-empty output or an entry in the failure map, never both, never neither.
C2_AsStated ==
    ParReturned =>
        \A p \in Range(plugins) :
            Truthy(results[p]) <=> (p \notin DOMAIN results["_failures"])

\* C2 amended: the partition holds whenever the submitted names are pairwise
\* distinct, in every completion order; the commands with output are those
\* whose call produced text and the others carry the reason of their call.
C2_Partition ==
    (ParReturned /\ DistinctNames(plugins)) =>
        \A i \in DOMAIN fut :
            LET p == plugins[i] IN
            /\ Truthy(results[p]) <=> (p \notin DOMAIN results["_failures"])
            /\ Truthy(results[p]) <=> Produced(i)
            /\ ~Produced(i) => results["_failures"][p] = ReasonOf(i)

\* distinct names, one with output and one without, collected out of
\* submission order
C2_Witness ==
    /\ ParReturned
    /\ DistinctNames(plugins)
    /\ Len(plugins) = 2
    /\ Produced(2) /\ ~Produced(1)
    /\ events # <<>>

\* C7: an exception of one call never leaves run_vol_parallel; it becomes a
\* failure entry under that command's name, and every submitted call is run
\* and collected, each name being recorded with the outcome of a call of
\* that name.
C7_ExceptionContained ==
    entry = "run_vol_parallel" =>
        /\ error = "" /\ pc # "Failed"
        /\ pc = "par_returned" =>
              /\ completed = Len(plugins)
              /\ \A i \in DOMAIN fut :
                    LET p == plugins[i]
                        same == {j \in DOMAIN fut : plugins[j] = p}
                    IN  /\ fut[i].st = "collected"
                        /\ p \in DOMAIN results
                        /\ \E j \in same :
                              results[p] = (IF fut[j].res.raised THEN None
                                            ELSE fut[j].res.value)
                        /\ fut[i].res.raised =>
                              /\ p \in DOMAIN results["_failures"]
                              /\ \E j \in same : ~Produced(j)
                                    /\ results["_failures"][p] = ReasonOf(j)
                        /\ (same = {i} /\ Produced(i)) =>
                              /\ results[p] = fut[i].res.value
                              /\ p \notin DOMAIN results["_failures"]

\* one call raised, a call of another name produced output and is recorded
C7_Witness ==
    /\ ParReturned
    /\ DistinctNames(plugins)
    /\ \E i, j \in DOMAIN fut :
          /\ fut[i].res.raised
          /\ Produced(j)
          /\ results[plugins[j]] = fut[j].res.value
          /\ results["_failures"][plugins[i]] = fut[i].res.exc

\* C8: with a tracker attached there is exactly one progress update per
\* collected call, the k-th carrying (k, N); N updates in all at the return.
C8_ProgressPerCompletion ==
    (entry = "run_vol_parallel" /\ tracked) =>
        /\ Len(events) = completed
        /\ \A k \in 1..Len(events) :
              /\ events[k].stage = "Plugin Execution"
              /\ events[k].current = k
              /\ events[k].total = Len(plugins)
        /\ pc = "par_returned" => Len(events) = Len(plugins)

\* three calls ending in success, failure and exception, all reported
C8_Witness ==
    /\ ParReturned /\ tracked
    /\ Len(events) = 3
    /\ events[3].current = 3 /\ events[3].total = 3
    /\ \E i, j, k \in DOMAIN fut :
          Produced(i) /\ fut[k].res.raised /\ (~fut[j].res.raised) /\ ~Produced(j)

\* ------------------------------------------------------------------------
\* Properties of full_analysis (Spec, SpecLive)
\* ------------------------------------------------------------------------
NineStages ==
    <<"Validation", "FormatDetection", "Hashing", "OSDetection", "PluginSelection",
      "PluginExecution", "Parsing", "Fusion", "Finalization">>

IsPrefix(s, t) == Len(s) <= Len(t) /\ \A i \in 1..Len(s) : s[i] = t[i]

\* commands of the run whose call produced no output
Unproductive == {plugins[i] : i \in {j \in DOMAIN fut : ~Produced(j)}}

\* C3: once validation, format detection and hashing have succeeded the run
\* does not fail and ends with a report, whatever the commands did; the
\* report's plugin_failures is null exactly when every selected command
\* produced output and otherwise lists exactly the commands that did not.
C3_PartialResults ==
    /\ [](Len(trace) >= 4 => (pc # "Failed" /\ error = ""))
    /\ [](pc = "Completed" =>
            /\ report.kind = "report"
            /\ report.plugins_executed = Len(plugins)
            /\ report.plugin_failures.isNone <=> (Unproductive = {})
            /\ DOMAIN report.plugin_failures.dict = Unproductive)
    /\ ((pc = "OSDetection") ~> (pc = "Completed"))

\* a report with an itemised failure list next to a command that succeeded
C3_Witness ==
    /\ pc = "Completed"
    /\ ~report.plugin_failures.isNone
    /\ \E i, j \in DOMAIN fut : Produced(i) /\ ~Produced(j) /\ ~fut[j].res.raised

\* C4 as stated: when the external tool cannot be located the run returns
\* no report (it ends Failed with a typed error).
C4_AsStated ==
    (entry = "full_analysis" /\ vol = "absent") => pc # "Completed"

\* C5: Validation raises MemflowError, before any other stage, any external
\* command and any report, when the path is missing, is not a regular file
\* or is smaller than 1024 bytes; a regular file of 1024 bytes or more passes.
C5_Validation ==
    (entry = "full_analysis" /\ Len(trace) >= 1) =>
        IF file.kind # "file" \/ file.size < 1024
        THEN /\ pc = "Failed"
             /\ error \in {"MemflowError: File not found", "MemflowError: Not a file",
                           "MemflowError: File too small"}
             /\ trace = <<"Validation">>
             /\ \A k \in 1..Len(events) : events[k].stage = "Validation"
             /\ fut = <<>> /\ plugins = <<>>
             /\ format_info = NoFormatInfo /\ hashes = NoHashes
             /\ os_detection = NoOSDetection
             /\ report = NoReport
        ELSE /\ error \notin {"MemflowError: File not found", "MemflowError: Not a file",
                              "MemflowError: File too small"}
             /\ Len(trace) = 1 => pc = "FormatDetection"

\* a file of exactly 1024 bytes has passed validation
C5_Witness ==
    /\ entry = "full_analysis"
    /\ file.kind = "file" /\ file.size = 1024
    /\ Len(trace) >= 2 /\ trace[2] = "FormatDetection"

\* C6: the stages are entered in the fixed order, each at most once, the
\* parser stage only after every submitted call was collected; a run ends
\* Completed with a report or Failed with an exception, and after a failure
\* no stage is entered.
C6_StageOrder ==
    /\ [](entry = "full_analysis" =>
            /\ IsPrefix(trace, NineStages)
            /\ (pc = "Failed") <=> (error # "")
            /\ pc = "Failed" => report = NoReport
            /\ pc = "Completed" => (trace = NineStages /\ report.kind = "report")
            /\ Len(trace) >= 7 => \A i \in DOMAIN fut : fut[i].st = "collected")
    /\ [][(pc = "Failed" \/ pc = "Completed") => (trace' = trace /\ pc' = pc)]_vars
    /\ <>(pc \in {"Failed", "Completed"})

\* a run that failed in Hashing after two stages had finished
C6_Witness ==
    /\ pc = "Failed"
    /\ trace = <<"Validation", "FormatDetection", "Hashing">>

\* ------------------------------------------------------------------------
\* Properties of detect_dump_format (SpecQuick)
\* ------------------------------------------------------------------------
FormatDetected == entry = "quick_scan" /\ pc \in {"qs_os", "Completed"}

\* sig lies within the first n bytes of the file
SigWithin(f, sig, n) ==
    \E k \in 0..(Min(n, f.size) - Len(sig)) :
        \A j \in 1..Len(sig) : ByteAt(f, k + j - 1) = sig[j]

\* formats (by position in the table) with a signature in the first n bytes
FormatsWithin(f, n) ==
    {i \in 1..Len(FORMAT_SIGNATURES) :
        \E j \in 1..Len(FORMAT_SIGNATURES[i].sigs) :
            SigWithin(f, FORMAT_SIGNATURES[i].sigs[j], n)}

DumpFormatValues ==
    <<"windows_crash_dump", "windows_hibernation", "elf_core", "lime", "vmware",
      "virtualbox">>

FirstDeclared(S) == CHOOSE i \in S : \A j \in S : i <= j

\* C9 as stated: a signature anywhere in the 512-byte header window gives
\* confidence 90 and the first-declared matching format.
C9_AsStated ==
    (FormatDetected /\ FormatsWithin(file, 512) # {}) =>
        /\ format_info.confidence = 90
        /\ format_info.format_type = DumpFormatValues[FirstDeclared(FormatsWithin(file, 512))]

\* C9 amended: a signature lying within the first 64 bytes of the header
\* gives confidence 90 and the format declared first among the formats with
\* a signature there, wherever in those 64 bytes the matches lie; the
\* evidence names the signature found.
C9_FirstDeclaredWins ==
    (FormatDetected /\ FormatsWithin(file, 64) # {}) =>
        /\ format_info.confidence = 90
        /\ format_info.format_type = DumpFormatValues[FirstDeclared(FormatsWithin(file, 64))]
        /\ ~format_info.is_compressed
        /\ SigWithin(file, format_info.evidence.sig8, 64)
        /\ SigWithin(file, SIG_PAGEDUMP, 8) => format_info.evidence.sig8 = SIG_PAGEDUMP

\* two formats match and the later-declared one lies earlier in the header
C9_Witness ==
    /\ FormatDetected
    /\ format_info.format_type = "windows_hibernation"
    /\ SigWithin(file, SIG_hibr, 64)
    /\ SigWithin(file, SIG_ELF, 4)

\* C10: with no signature match the result is raw with confidence 50 and
\* is_compressed tells whether the file begins with 1f 8b, 'BZ', 50 4b or
\* fd 37.
C10_RawDefault ==
    (FormatDetected /\ FormatsWithin(file, 64) = {}) =>
        /\ format_info.format_type = "raw"
        /\ format_info.confidence = 50
        /\ format_info.is_compressed <=>
              (/\ file.size >= 2
               /\ <<ByteAt(file, 0), ByteAt(file, 1)>> \in
                     {<<31, 139>>, <<66, 90>>, <<80, 75>>, <<253, 55>>})

\* a raw classification of a file that begins with a compression magic
C10_Witness ==
    /\ FormatDetected
    /\ format_info.format_type = "raw"
    /\ format_info.is_compressed
    /\ file.toks # {}

\* ------------------------------------------------------------------------
\* Properties of the OS classifier (SpecOS)
\* ------------------------------------------------------------------------
\* the sample was classified, grown, and classified again
Reclassified ==
    /\ entry = "classify"
    /\ prev # NoPrev
    /\ pc \in {"os_select", "os_fuse", "os_done"}

WinnerBefore == prev.os_detection.os_type
ScoreBefore == _calculate_signature_score(prev.file, OSSignatures(WinnerBefore))
ScoreAfter == _calculate_signature_score(file, OSSignatures(WinnerBefore))

Selected == entry = "classify" /\ pc \in {"os_fuse", "os_done"}

TierOrder == <<"essential", "network", "malware", "advanced">>
Catalogs == <<WINDOWS_PLUGINS, LINUX_PLUGINS, MACOS_PLUGINS>>

CatalogOf(os_type) ==
    CASE os_type = "Windows" -> WINDOWS_PLUGINS
      [] os_type = "Linux"   -> LINUX_PLUGINS
      [] os_type = "macOS"   -> MACOS_PLUGINS

CatalogCommands(cat) == UNION {Range(cat[t]) : t \in DOMAIN cat}

\* where each command is declared: <<tier, catalog, position in the tier>>
DeclaredAt ==
    [name \in UNION {CatalogCommands(Catalogs[c]) : c \in 1..Len(Catalogs)} |->
        {d \in (1..Len(TierOrder)) \X (1..Len(Catalogs)) \X (1..5) :
            /\ TierOrder[d[1]] \in DOMAIN Catalogs[d[2]]
            /\ d[3] <= Len(Catalogs[d[2]][TierOrder[d[1]]])
            /\ Catalogs[d[2]][TierOrder[d[1]]][d[3]] = name}]

Declared(name) == DeclaredAt[name]

LexLess(a, b) ==
    \/ a[1] < b[1]
    \/ a[1] = b[1] /\ a[2] < b[2]
    \/ a[1] = b[1] /\ a[2] = b[2] /\ a[3] < b[3]

\* C12: the selected list holds no command twice, and of any two commands
\* the one listed first is declared in an earlier tier (essential, network,
\* malware, advanced) or earlier in the same tier.
C12_NoDuplicatesTierOrder ==
    Selected =>
        /\ \A i, j \in 1..Len(plugins) : i # j => plugins[i] # plugins[j]
        /\ \A i \in 1..Len(plugins) : Cardinality(Declared(plugins[i])) = 1
        /\ \A i, j \in 1..Len(plugins) :
              i < j => \E a \in Declared(plugins[i]), b \in Declared(plugins[j]) : LexLess(a, b)

\* the full Windows list: all four tiers selected
C12_Witness ==
    /\ Selected
    /\ os_detection.os_type = "Windows" /\ level = "full"
    /\ Len(plugins) = 14
    /\ plugins[5] = "windows.netscan" /\ plugins[7] = "windows.malfind"
    /\ plugins[14] = "windows.sessions"

LevelOrder == <<"essential", "standard", "advanced", "full">>

\* C13 as stated: for a known family the list of each lower depth is a
\* prefix of the selected list, and the list for full holds every command
\* declared in the family's catalog.
C13_AsStated ==
    (Selected /\ os_detection.os_type \in {"Windows", "Linux", "macOS"}) =>
        /\ \A k \in 1..4 :
              (\E m \in k..4 : LevelOrder[m] = level) =>
                  IsPrefix(_select_plugins(os_detection.os_type, LevelOrder[k]), plugins)
        /\ level = "full" =>
              CatalogCommands(CatalogOf(os_detection.os_type)) \subseteq Range(plugins)

\* C14: at depth essential the list of a known family is exactly the
\* family's essential tier in declared order; for Windows it is
\* windows.info, windows.pslist, windows.pstree, windows.cmdline.
C14_EssentialExact ==
    (Selected /\ level = "essential"
              /\ os_detection.os_type \in {"Windows", "Linux", "macOS"}) =>
        /\ plugins = CatalogOf(os_detection.os_type).essential
        /\ os_detection.os_type = "Windows" =>
              plugins = <<"windows.info", "windows.pslist", "windows.pstree",
                          "windows.cmdline">>
        /\ \A i \in 1..Len(plugins) : \A d \in Declared(plugins[i]) : d[1] = 1

\* essential depth on a Windows classification
C14_Witness ==
    /\ Selected
    /\ level = "essential"
    /\ os_detection.os_type = "Windows"
    /\ Len(plugins) = 4

\* C15: for an unknown family the list is, at every depth, the Windows
\* essential tier followed by the first two Linux essential commands.
C15_UnknownFallback ==
    (Selected /\ os_detection.os_type = "Unknown") =>
        plugins = <<"windows.info", "windows.pslist", "windows.pstree", "windows.cmdline",
                    "linux.bash", "linux.pslist">>

\* the fallback list returned for depth full
C15_Witness ==
    /\ Selected
    /\ os_detection.os_type = "Unknown"
    /\ level = "full"
    /\ Len(plugins) = 6

\* ------------------------------------------------------------------------
\* Properties of determine_os_confidence (SpecOS) and of the confidence
\* values of a run (Spec)
\* ------------------------------------------------------------------------
Fused == entry = "classify" /\ pc = "os_done"

\* the external tool confirmed the guessed family
ToolConfirmed(os_type, windows_info, r) ==
    CASE os_type = "Windows" -> ~windows_info.isNone
      [] os_type = "Linux"   -> "linux.pslist" \in DOMAIN r /\ ~r["linux.pslist"].isNone
      [] os_type = "macOS"   -> "mac.pslist" \in DOMAIN r /\ ~r["mac.pslist"].isNone
      [] OTHER               -> FALSE

ConfirmedNow == ToolConfirmed(os_detection.os_type, parsed.windows_info, results)
ConfirmedBefore == ToolConfirmed(prev.os_detection.os_type, prev.parsed.windows_info,
                                 prev.results)

\* C16: a confirmed result has tier HIGH and an unconfirmed one never has;
\* of two fusions of the same heuristic confidence the confirmed one scores
\* at least as high as the unconfirmed one.
C16_ConfirmedDominates ==
    Fused =>
        /\ ConfirmedNow <=> (os_final.confidence_level = "HIGH")
        /\ ConfirmedNow => os_final.confidence_score >= os_detection.confidence
        /\ ~ConfirmedNow => os_final.confidence_score <= os_detection.confidence
        /\ (prev # NoPrev /\ prev.os_detection.confidence = os_detection.confidence) =>
              /\ (ConfirmedNow /\ ~ConfirmedBefore) =>
                    os_final.confidence_score >= prev.os_final.confidence_score
              /\ (ConfirmedBefore /\ ~ConfirmedNow) =>
                    prev.os_final.confidence_score >= os_final.confidence_score

\* the same weak heuristic fused twice: unconfirmed LOW, then confirmed HIGH
C16_Witness ==
    /\ Fused
    /\ prev # NoPrev
    /\ prev.os_detection.confidence = os_detection.confidence
    /\ os_detection.confidence = 60
    /\ ~ConfirmedBefore /\ prev.os_final.confidence_level = "LOW"
    /\ ConfirmedNow /\ os_final.confidence_score = 90

\* C17: the format confidence, the heuristic OS confidence and the fused
\* confidence of a run all lie in [0, 100].
C17_ConfidenceRange ==
    entry = "full_analysis" =>
        /\ format_info.confidence \in 0..100
        /\ os_detection.confidence \in 0..100
        /\ Len(trace) >= 8 => os_final.confidence_score \in 0..100
        /\ pc = "Completed" => report.os_detection.confidence_score \in 0..100

\* six occurrences and a confirmation: both clamps at work
C17_Witness ==
    /\ entry = "full_analysis" /\ pc = "Completed"
    /\ _calculate_signature_score(file, WINDOWS_SIGNATURES) = 60
    /\ os_detection.confidence = 100
    /\ os_final.confidence_level = "HIGH"
    /\ os_final.confidence_score = 100
    /\ format_info.confidence = 50

\* ------------------------------------------------------------------------
\* Properties of ProgressTracker.update (SpecProgress)
\* ------------------------------------------------------------------------
SevenStages ==
    <<"Validation", "Format Detection", "Hashing", "OS Detection",
      "Plugin Execution", "Analysis", "Finalization">>

\* 0-based position of the stage among the n declared stages
StagePosition(e) ==
    IF stages = SevenStages
    THEN CHOOSE i \in 0..6 : SevenStages[i + 1] = e.stage
    ELSE 0

\* e.num / e.den = a / b, for positive denominators
SameFraction(e, a, b) == e.den > 0 /\ b > 0 /\ e.num * b = a * e.den

\* the percentage before the clamp, as a fraction a / b:
\*   index * 100/n + (current/total) * 100/n, or current/total * 100
Unclamped(e) ==
    LET n == Len(stages) IN
    IF e.stage \in Range(stages)
    THEN IF e.total > 0
         THEN [a |-> StagePosition(e) * 100 * e.total + e.current * 100, b |-> n * e.total]
         ELSE [a |-> StagePosition(e) * 100, b |-> n]
    ELSE IF e.total > 0
         THEN [a |-> e.current * 100, b |-> e.total]
         ELSE [a |-> 0, b |-> 1]

\* C18: the percentage handed to the observer is
\* index * 100/n + (current/total) * 100/n for a declared stage and
\* current/total * 100 otherwise (fraction 0 when total is 0), cut at 100;
\* it never exceeds 100 and for current >= 0 it is never negative.
C18_Percentage ==
    entry = "progress_update" =>
        \A k \in 1..Len(events) :
            LET e == events[k]
                u == Unclamped(e)
            IN  /\ IF u.a > 100 * u.b THEN SameFraction(e, 100, 1)
                                      ELSE SameFraction(e, u.a, u.b)
                /\ e.num <= 100 * e.den
                /\ e.current >= 0 => e.num >= 0

\* current above total in the last declared stage: 6 * 100/7 + 4/3 * 100/7
\* is cut at 100
C18_Witness ==
    /\ entry = "progress_update"
    /\ stages = SevenStages
    /\ Len(events) = 1
    /\ events[1].stage = "Finalization" /\ events[1].current = 4 /\ events[1].total = 3
    /\ events[1].num = 100 * events[1].den

\* ------------------------------------------------------------------------
\* Properties of the progress observer in a run (SpecObs)
\* ------------------------------------------------------------------------
\* the k-th update reached the observer if there is one
Handed(k) == callback # "none" => events[k].observer \in {"returned", "raised"}

IsUpdate(k, stage, current, total) ==
    /\ events[k].stage = stage
    /\ events[k].current = current
    /\ events[k].total = total

\* C19: an exception of the observer never leaves ProgressTracker.update
\* (it is logged); every later update still reaches the observer; the run
\* fails only for the reasons a run without observer fails for, goes
\* through all remaining stages and returns the report the stage results
\* determine.
C19_ObserverContained ==
    /\ [](entry = "full_analysis" =>
            /\ \A k \in 1..Len(events) :
                  /\ ~events[k].escaped
                  /\ events[k].logged <=> (events[k].observer = "raised")
                  /\ Handed(k)
                  /\ callback = "raises" => events[k].observer = "raised"
            /\ Len(trace) >= 2 =>
                  /\ Len(events) >= 3
                  /\ IsUpdate(1, "Validation", 0, 2)
                  /\ IsUpdate(2, "Validation", 1, 2)
                  /\ IsUpdate(3, "Validation", 2, 2)
            /\ pc = "Failed" =>
                  error \in {"MemflowError: File not found", "MemflowError: Not a file",
                             "MemflowError: File too small",
                             "MemflowError: Format detection failed",
                             "MemflowError: Failed to calculate hashes"}
            /\ pc = "Completed" =>
                  /\ trace = NineStages
                  /\ IsUpdate(Len(events), "Finalization", 1, 1)
                  /\ Cardinality({k \in 1..Len(events) : events[k].stage = "Plugin Execution"})
                        = Len(plugins)
                  /\ report.kind = "report"
                  /\ report.format = format_info
                  /\ report.hashes = hashes
                  /\ report.os_detection = os_final
                  /\ report.plugins_executed = Len(plugins)
                  /\ report.plugin_failures.isNone <=> (Unproductive = {})
                  /\ DOMAIN report.plugin_failures.dict = Unproductive)
    /\ ((entry = "full_analysis" /\ pc = "OSDetection") ~> (pc = "Completed"))

\* a completed run whose observer raised at the start of every stage and
\* was handed the updates after each raise
C19_Witness ==
    /\ entry = "full_analysis" /\ pc = "Completed"
    /\ callback = "picky"
    /\ events[1].observer = "raised" /\ events[1].logged
    /\ events[2].observer = "returned"
    /\ \E k \in 1..Len(events) : events[k].stage = "Hashing" /\ events[k].observer = "returned"
    /\ events[Len(events)].observer = "returned"

\* ------------------------------------------------------------------------
\* Properties of two calls of quick_scan (SpecQuick)
\* ------------------------------------------------------------------------
SecondScanEnded ==
    /\ entry = "quick_scan"
    /\ prev # NoPrev
    /\ pc \in {"Completed", "Failed"}

StageKey(stage) ==
    CASE stage = "Validation"      -> "validation"
      [] stage = "FormatDetection" -> "format_detection"
      [] stage = "Hashing"         -> "hashing"
      [] stage = "OSDetection"     -> "os_detection"
      [] stage = "PluginSelection" -> "plugin_selection"
      [] stage = "PluginExecution" -> "plugin_execution"
      [] stage = "Parsing"         -> "parsing"
      [] stage = "Fusion"          -> "fusion"
      [] OTHER                     -> "finalization"

\* C21 as stated: the report of a completed run has a recorded duration for
\* every pipeline stage, from Validation to Finalization, in
\* performance.stage_timings, together with the total elapsed time.
C21_AsStated ==
    (entry = "full_analysis" /\ pc = "Completed") =>
        /\ "total_time" \in DOMAIN report.performance
        /\ \A i \in 1..Len(StageOrder) :
               StageKey(StageOrder[i]) \in report.performance.stage_timings

\* ------------------------------------------------------------------------
\* Properties of enhanced_os_detection (SpecOS)
\* ------------------------------------------------------------------------
\* the classifier has just returned for the sample in `file`
Classified == entry = "classify" /\ pc = "os_select"

FamilyOrder == <<"Windows", "Linux", "macOS">>

\* the score of a family on the sample, signature by signature
FamilyScore(o) == _calculate_signature_score(file, OSSignatures(o))

TopScore == SetMax({FamilyScore(FamilyOrder[i]) : i \in 1..3})

\* the families holding the maximum score
TopFamilies == {i \in 1..3 : FamilyScore(FamilyOrder[i]) = TopScore}

\* C22: the classifier returns the family with the maximum weighted score
\* among Windows, Linux and macOS; when several families share the maximum
\* non-zero score, the earliest of them in the order Windows, Linux, macOS
\* is returned.
C22_MaxScoreFirstWins ==
    (Classified /\ file.bad = "none" /\ TopScore > 0) =>
        /\ FamilyScore(os_detection.os_type) = TopScore
        /\ os_detection.os_type = FamilyOrder[SetMin(TopFamilies)]

\* two families share the maximum and the earlier one was returned
C22_Witness ==
    /\ Classified
    /\ file.bad = "none"
    /\ TopScore > 0
    /\ TopFamilies = {2, 3}
    /\ os_detection.os_type = "Linux"


\* the sample read from `file`
SampleLen == Min(file.size, HEURISTIC_SAMPLE_SIZE)

\* every offset of the sample at which sig starts
Starts(sig) == Occurrences(file, sig, SampleLen)

\* the largest number of occurrences of an n-byte signature no two of which
\* share a byte
Separate(occ, n) ==
    SetMax({Cardinality(T) : T \in {U \in SUBSET occ :
                \A a \in U, b \in U : a # b => (a + n <= b \/ b + n <= a)}})

\* 10 points per occurrence, halved when the first occurrence lies outside
\* the first quarter of the sample
RECURSIVE StatedScore(_, _, _)
StatedScore(signatures, i, overlapping) ==
    IF i > Len(signatures) THEN 0
    ELSE LET occ == Starts(signatures[i])
             counted == IF overlapping THEN Cardinality(occ)
                        ELSE Separate(occ, Len(signatures[i]))
             pts == IF occ = {} THEN 0
                    ELSE IF SetMin(occ) < SampleLen \div 4
                         THEN 10 * counted
                         ELSE 5 * counted
         IN  pts + StatedScore(signatures, i + 1, overlapping)

AllZero == \A i \in 1..3 : \A k \in 1..Len(OSSignatures(FamilyOrder[i])) :
               Starts(OSSignatures(FamilyOrder[i])[k]) = {}

\* `Linux version` once in the first quarter and no other signature
ScenarioC ==
    /\ Cardinality(Starts(LINUX_SIGNATURES[1])) = 1
    /\ SetMin(Starts(LINUX_SIGNATURES[1])) < SampleLen \div 4
    /\ \A i \in 1..3 : \A k \in 1..Len(OSSignatures(FamilyOrder[i])) :
           OSSignatures(FamilyOrder[i])[k] # LINUX_SIGNATURES[1]
               => Starts(OSSignatures(FamilyOrder[i])[k]) = {}

\* C23 as stated: the confidence is min(100, 50 + S), S being the winner's
\* score with 10 points for every occurrence of a signature (weighted 1.0 or
\* 0.5 by the place of the first occurrence); all scores 0 gives Unknown
\* with confidence 0.
C23_AsStated ==
    (Classified /\ file.bad = "none") =>
        IF AllZero
        THEN os_detection.os_type = "Unknown" /\ os_detection.confidence = 0
        ELSE os_detection.confidence
                = Min(100, 50 + StatedScore(OSSignatures(os_detection.os_type), 1, TRUE))

\* C23 amended: the confidence is min(100, 50 + S), S being the winner's
\* score with 10 points for every occurrence counted from the left without
\* overlap (an occurrence that shares a byte with the one counted before it
\* is not counted), weighted 1.0 when the signature's first occurrence lies
\* in the first quarter of the sample and 0.5 otherwise; all scores 0 gives
\* Unknown with confidence 0; `Linux version` once in the first quarter and
\* no other signature gives Linux with confidence 60.
C23_ConfidenceFromScore ==
    (Classified /\ file.bad = "none") =>
        /\ IF AllZero
           THEN os_detection.os_type = "Unknown" /\ os_detection.confidence = 0
           ELSE os_detection.confidence
                   = Min(100, 50 + StatedScore(OSSignatures(os_detection.os_type), 1, FALSE))
        /\ ScenarioC => (os_detection.os_type = "Linux" /\ os_detection.confidence = 60)

\* `/etc/` starts at two offsets that share a byte and is counted once
C23_Witness ==
    /\ Classified
    /\ file.bad = "none"
    /\ Cardinality(Starts(LINUX_SIGNATURES[4])) = 2
    /\ Separate(Starts(LINUX_SIGNATURES[4]), Len(LINUX_SIGNATURES[4])) = 1
    /\ os_detection.os_type = "Linux"
    /\ os_detection.confidence = 60


\* C24: the fusion applies its rules in this order: a tool-confirmed guess
\* gets min(100, heuristic + 30) and tier HIGH; otherwise a heuristic
\* confidence of 70 or more gets tier MEDIUM, a positive one tier LOW, both
\* with the confidence unchanged, and 0 gets tier NONE with confidence 0.
\* The evidence of the heuristic classification is reported unmodified.
C24_RulesInOrder ==
    Fused =>
        /\ os_final.evidence = os_detection.evidence
        /\ os_final.operating_system = os_detection.os_type
        /\ IF ConfirmedNow
           THEN /\ os_final.confidence_level = "HIGH"
                /\ os_final.confidence_score = Min(100, os_detection.confidence + 30)
           ELSE IF os_detection.confidence >= 70
           THEN /\ os_final.confidence_level = "MEDIUM"
                /\ os_final.confidence_score = os_detection.confidence
           ELSE IF os_detection.confidence > 0
           THEN /\ os_final.confidence_level = "LOW"
                /\ os_final.confidence_score = os_detection.confidence
           ELSE /\ os_final.confidence_level = "NONE"
                /\ os_final.confidence_score = 0

\* a confirmed guess of heuristic confidence 80: the first rule applies, not
\* the second, and the sum is cut at 100
C24_Witness ==
    /\ Fused
    /\ ConfirmedNow
    /\ os_detection.confidence = 80
    /\ os_final.confidence_level = "HIGH"
    /\ os_final.confidence_score = 100
    /\ os_final.evidence.found > 0


\* ------------------------------------------------------------------------
\* Tool confirmation in a pipeline run (Spec)
\* ------------------------------------------------------------------------
RunCompleted == entry = "full_analysis" /\ pc = "Completed"

\* at least one of the executed commands returned output
SomeCommandReturned == \E i \in 1..Len(plugins) : ~DictGet(results, plugins[i]).isNone

\* C25 as stated: in a pipeline run the guessed family is tool-confirmed
\* (fused tier HIGH) if and only if at least one of the commands selected
\* for that family returned output.
C25_AsStated ==
    (RunCompleted /\ os_detection.os_type \in {"Windows", "Linux", "macOS"}) =>
        ((report.os_detection.confidence_level = "HIGH") <=> SomeCommandReturned)


\* ------------------------------------------------------------------------
\* Failure reasons of run_vol_parallel (SpecRunVol)
\* ------------------------------------------------------------------------
RunVolReturned == entry = "run_vol" /\ pc = "par_returned"

\* how the call for plugins[i] ended
EndOf(i) == prev.ended[i]

\* the child process ran and exceeded the timeout
TimedOut(i) == EndOf(i).find = "path" /\ EndOf(i).proc.kind = "timeout"

\* the child process exited, nonzero or with empty standard output
ExitedWithoutOutput(i) ==
    /\ EndOf(i).find = "path"
    /\ EndOf(i).proc.kind = "exit"
    /\ (EndOf(i).proc.rc # 0 \/ EndOf(i).proc.stdout = <<>>)

\* the reason recorded for plugins[i]
RecordedReason(i) == results["_failures"][plugins[i]]

\* C26 as stated: a command that times out is recorded with "timed out after
\* Ns"; one that exits nonzero or with empty output is recorded with the
\* first line of its standard error, and with "no output returned" only when
\* standard error is empty too; a timeout and an empty-output exit never get
\* the same reason.
C26_AsStated ==
    RunVolReturned =>
        /\ \A i \in 1..Len(plugins) :
              /\ TimedOut(i) => RecordedReason(i) = "timed out after 300s"
              /\ (ExitedWithoutOutput(i) /\ EndOf(i).proc.stderr # "")
                    => RecordedReason(i) = EndOf(i).proc.stderr
              /\ (ExitedWithoutOutput(i) /\ EndOf(i).proc.stderr = "")
                    => RecordedReason(i) = "No output returned"
        /\ \A i \in 1..Len(plugins), j \in 1..Len(plugins) :
              (TimedOut(i) /\ ExitedWithoutOutput(j))
                 => RecordedReason(i) # RecordedReason(j)


\* ------------------------------------------------------------------------
\* Properties of parse_generic_table (SpecTable)
\* ------------------------------------------------------------------------
TableParsed == entry = "parse_generic_table" /\ pc = "table_done"

\* the text handed to the parser and its lines
RawText == results["windows.cmdline"]
TextLines == SplitLines(Strip(RawText.text), <<>>)

\* the fields of a line
Fields(line) == ReSplit(Strip(line), <<>>)

\* the first line that looks like a header and has two fields or more
FirstHeader == SetMin(HeaderLines(TextLines))

\* the column names derived from it
Columns == [k \in 1..Len(Fields(TextLines[FirstHeader])) |->
               Strip(Fields(TextLines[FirstHeader])[k])]

\* the later lines that are not blank, not separators and not short
Qualifying ==
    {i \in (FirstHeader + 1)..Len(TextLines) :
        /\ Strip(TextLines[i]) # <<>>
        /\ ~StartsWith(Strip(TextLines[i]), <<"=", "=", "=">>)
        /\ Len(Fields(TextLines[i])) >= Len(Columns)}

\* the k-th of them in input order
NthQualifying(k) ==
    CHOOSE i \in Qualifying : Cardinality({j \in Qualifying : j <= i}) = k

HasTable == Truthy(RawText) /\ HeaderLines(TextLines) # {} /\ Qualifying # {}

\* C27: the parser raises on no text; the first line that looks like a
\* header gives the column names; every later line that is not blank, not a
\* separator and has as many fields as there are columns or more gives one
\* row, in input order, whose keys are exactly the column names; a shorter
\* line gives no row; without a header or without such a line the result is
\* None.
C27_TableRows ==
    TableParsed =>
        /\ error = ""
        /\ parsed.table.isNone <=> ~HasTable
        /\ HasTable =>
              /\ Len(parsed.table.rows) = Cardinality(Qualifying)
              /\ \A k \in 1..Len(parsed.table.rows) :
                    /\ DOMAIN parsed.table.rows[k] = Range(Columns)
                    /\ \A c \in 1..Len(Columns) :
                          (\A d \in (c + 1)..Len(Columns) : Columns[d] # Columns[c])
                             => parsed.table.rows[k][Columns[c]]
                                   = Strip(Fields(TextLines[NthQualifying(k)])[c])

\* a header, a short line that gives no row and a long line that gives one
C27_Witness ==
    /\ TableParsed
    /\ HasTable
    /\ Len(TextLines) = 3
    /\ FirstHeader = 1
    /\ Len(Columns) = 2
    /\ Len(Fields(TextLines[2])) = 1
    /\ Len(Fields(TextLines[3])) = 3
    /\ ~parsed.table.isNone
    /\ Len(parsed.table.rows) = 1
    /\ DOMAIN parsed.table.rows[1] = {<<"P", "i", "d">>, <<"N", "a">>}


\* ------------------------------------------------------------------------
\* The network section of the report (Spec)
\* ------------------------------------------------------------------------
\* the network commands among the selected ones
SelectedNetwork ==
    {plugins[i] : i \in 1..Len(plugins)}
    \cap UNION {Range(Catalogs[c].network) : c \in 1..Len(Catalogs)}

\* C28 as stated: a run that selects no network command reports failure type
\* 'not_included' and not 'plugin_error'; 'plugin_error' is reported only
\* when at least one network command was selected and every selected network
\* command produced no output.
C28_AsStated ==
    RunCompleted =>
        /\ SelectedNetwork = {} => report.network_analysis.failure_type = "not_included"
        /\ report.network_analysis.failure_type = "plugin_error" =>
              /\ SelectedNetwork # {}
              /\ \A p \in SelectedNetwork : DictGet(results, p).isNone


\* ------------------------------------------------------------------------
\* The percentages of one run of full_analysis (Spec)
\* ------------------------------------------------------------------------
\* a/b <= c/d for a, c >= 0 and b, d > 0, compared by whole parts and then
\* by the inverted remainders, so that no product of the large byte counts
\* is formed
RECURSIVE FracLeq(_, _, _, _)
FracLeq(a, b, c, d) ==
    IF a \div b # c \div d THEN a \div b < c \div d
    ELSE IF a % b = 0 THEN TRUE
    ELSE IF c % d = 0 THEN FALSE
    ELSE FracLeq(d, c % d, b, a % b)

\* events[i] reports no more than events[j]
PctLeq(i, j) == FracLeq(events[i].num, events[i].den, events[j].num, events[j].den)

PctIs100(k) == events[k].num = 100 * events[k].den

\* C29: over one run of full_analysis the percentages delivered to the
\* observer never decrease, whatever the order in which the parallel calls
\* end and whether or not a format signature matched; a run that completes
\* has delivered a last event of exactly 100, and no event of 100 is
\* delivered before the Finalization stage.
C29_PercentagesMonotone ==
    entry = "full_analysis" =>
        /\ \A k \in 1..Len(events) : events[k].observer = "returned"
        /\ \A i \in 1..Len(events) : \A j \in i..Len(events) : PctLeq(i, j)
        /\ \A k \in 1..Len(events) :
              PctIs100(k) => events[k].stage = "Finalization" /\ pc = "Completed"
        /\ pc = "Completed" => Len(events) > 0 /\ PctIs100(Len(events))

\* a completed run on a file with a format signature, whose format
\* detection made two updates only, and whose calls were collected with
\* one update each
C29_Witness ==
    /\ entry = "full_analysis" /\ pc = "Completed"
    /\ format_info.confidence = 90
    /\ Cardinality({k \in 1..Len(events) : events[k].stage = "Format Detection"}) = 2
    /\ Len(plugins) >= 2
    /\ Cardinality({k \in 1..Len(events) : events[k].stage = "Plugin Execution"}) >= 2
    /\ PctIs100(Len(events))


\* ------------------------------------------------------------------------
\* The status of a case (SpecTask)
\* ------------------------------------------------------------------------
StatusRank(st) ==
    CASE st = "queued"     -> 0
      [] st = "processing" -> 1
      [] OTHER             -> 2

\* no committed status moves back, and a terminal status stays as it is
StatusForward ==
    \A id \in DOMAIN cases :
        /\ StatusRank(cases'[id]) >= StatusRank(cases[id])
        /\ StatusRank(cases[id]) = 2 => cases'[id] = cases[id]

TaskFinished(j) == jobs[j].pc \in {"returned", "raised"}

\* C30 as stated: a case's status only moves forward along
\* queued -> processing -> failed/completed; whenever the task raises, the
\* case (if it exists) ends with status 'failed'; a task invoked for a case
\* id that does not exist writes no status and raises; and no case whose
\* task has finished is left in a non-terminal status.
C30_AsStated ==
    /\ [][StatusForward]_vars
    /\ [](\A j \in 1..Len(jobs) :
            /\ (jobs[j].pc = "raised" /\ jobs[j].case_id \in DOMAIN cases)
                  => cases[jobs[j].case_id] = "failed"
            /\ (TaskFinished(j) /\ jobs[j].case_id \notin DOMAIN cases)
                  => jobs[j].pc = "raised"
            /\ (TaskFinished(j) /\ jobs[j].case_id \in DOMAIN cases)
                  => cases[jobs[j].case_id] \in {"failed", "completed"})

=============================================================================
